---- MODULE Spec2Model ----
(***************************************************************************)
(* Model of the kubevirt machine-api provider: the Actuator                *)
(* (pkg/actuator), the VM manager (pkg/kubevirt and its predecessor        *)
(* pkg/managers/vm), the Machine Scope (pkg/machinescope) and the          *)
(* infra-cluster / tenant-cluster clients they drive.                      *)
(*                                                                         *)
(* One machine is reconciled.  Every Actuator operation is one atomic      *)
(* action; the outcome of each external call it makes is drawn from the    *)
(* cluster state and from the set of calls that fail transiently in that   *)
(* invocation.                                                             *)
(***************************************************************************)
EXTENDS Integers, Sequences, FiniteSets, TLC

VARIABLES
    now,          \* wall clock, in seconds
    machine,      \* the Machine object stored in the tenant cluster (its provider
                  \* configuration and the user-data secret are inputs of each call)
    vm,           \* the backing VirtualMachine in the infra cluster, or NoVM
    vmi,          \* TRUE iff the VirtualMachineInstance exists
    secret,       \* the ignition secret in the infra cluster, or NoObject
    node,         \* the Node of the machine in the tenant cluster, or NoObject
    last          \* observation of the last operation that ran

vars == <<now, machine, vm, vmi, secret, node, last>>

----------------------------------------------------------------------------
(* Bounds *)

MaxTime == 200
MaxFaults == 1

----------------------------------------------------------------------------
(* Program constants *)

requeueAfterSeconds == 20
requeueAfterFatalSeconds == 180
gracePeriod == 10

MachineName == "test-machine-name"
InfraNamespace == "test-infra-namespace"
InfraID == "test-infra-id"
VMUID == "vm-uid"
VMIName == MachineName

vmNotCreated == "vmNotCreated"
vmCreatedNotReady == "vmWasCreatedButNotReady"
vmCreatedAndReady == "vmWasCreatedAndReady"

createEventAction == "create machine"
updateEventAction == "update machine"
deleteEventAction == "delete machine"
existsEventAction == "check machine exists"

EventTypeWarning == "Warning"
EventTypeNormal == "Normal"

----------------------------------------------------------------------------
(* Strings that may be nil pointers *)

NilStr == [nil |-> TRUE, str |-> <<>>]
Str(s) == [nil |-> FALSE, str |-> s]
EmptyStr == Str(<<>>)

idFormat(namespace, name) == <<"kubevirt://", namespace, "/", name>>

FormatProviderID(namespace, name) == idFormat(namespace, name)

----------------------------------------------------------------------------
(* Errors.  kind is the Go type of the error value, after the delay of a   *)
(* RequeueAfterError, msg the message as the list of its parts.            *)

NoErr == [kind |-> "nil", after |-> 0, msg |-> <<>>]
Errorf(parts) == [kind |-> "errorString", after |-> 0, msg |-> parts]
NotFoundError(what) == [kind |-> "NotFound", after |-> 0, msg |-> <<what, "not found">>]
AlreadyExistsError(what) == [kind |-> "AlreadyExists", after |-> 0, msg |-> <<what, "already exists">>]
ServerError(what) == [kind |-> "StatusError", after |-> 0, msg |-> <<what, "server error">>]
Wrap(err, text) == [kind |-> "withStack", after |-> 0, msg |-> <<text>> \o err.msg]
RequeueAfterError(seconds) == [kind |-> "RequeueAfterError", after |-> seconds, msg |-> <<"requeue in">>]
InvalidMachineConfiguration(parts) == [kind |-> "MachineError", after |-> 0, msg |-> parts]

\* Mutant: no error recognised as not-found.
IsNotFoundNever(err) == FALSE

IsNotFound(err) == err.kind = "NotFound"

----------------------------------------------------------------------------
(* Provider configuration and the Machine object *)

ValidSpec ==
    [ClusterIDLabel |-> "test-cluster-id",
     Decodable |-> TRUE,
     SourcePvcName |-> "test-source-pvc-name",
     IgnitionSecretName |-> "test-ignition-secret-name",
     NetworkName |-> "test-network-name",
     PersistentVolumeAccessMode |-> ""]

ProviderSpecs ==
    { ValidSpec,
      [ValidSpec EXCEPT !.NetworkName = ""],
      [ValidSpec EXCEPT !.ClusterIDLabel = ""] }

UserSecretStates == {"missing", "nokey", "ok"}

InstanceStates == {vmNotCreated, vmCreatedNotReady, vmCreatedAndReady}

NoStatus == [set |-> FALSE, created |-> FALSE, ready |-> FALSE]

\* A Machine as the hosting framework first sees it: nothing synced yet.
NewMachine(pid) ==
    [providerID |-> pid,
     vmId |-> "",
     instanceState |-> "",
     instanceType |-> "<unset>",
     addresses |-> <<>>,
     providerStatus |-> NoStatus,
     lastUpdated |-> -1]

\* machineScope.machine.Status.LastUpdated == nil
LastUpdatedIsNil(m) == m.lastUpdated < 0

----------------------------------------------------------------------------
(* Machine Scope *)

\* Mutant: another access mode taken when none is configured.
defaultPersistentVolumeAccessModeOnce == "ReadWriteOnce"

defaultPersistentVolumeAccessMode == "ReadWriteMany"

buildBootVolumeName(virtualMachineName) == <<virtualMachineName, "-", "bootvolume">>

buildIgnitionSecretName(virtualMachineName) == <<virtualMachineName, "-ignition">>

\* Mutant: the ignition secret name looked at before the source volume name.
assertMandatoryParamsIgnitionFirst(ps) ==
    CASE ps.IgnitionSecretName = "" ->
            InvalidMachineConfiguration(<<MachineName, "missing value for IgnitionSecretName">>)
      [] ps.SourcePvcName = "" ->
            InvalidMachineConfiguration(<<MachineName, "missing value for SourcePvcName">>)
      [] ps.NetworkName = "" ->
            InvalidMachineConfiguration(<<MachineName, "missing value for NetworkName">>)
      [] OTHER -> NoErr

assertMandatoryParams(ps) ==
    CASE ps.SourcePvcName = "" ->
            InvalidMachineConfiguration(<<MachineName, "missing value for SourcePvcName">>)
      [] ps.IgnitionSecretName = "" ->
            InvalidMachineConfiguration(<<MachineName, "missing value for IgnitionSecretName">>)
      [] ps.NetworkName = "" ->
            InvalidMachineConfiguration(<<MachineName, "missing value for NetworkName">>)
      [] OTHER -> NoErr

NoObject == [isNil |-> TRUE]

\* Mutant: the VM placed in the machine's own namespace.
CreateVirtualMachineInMachineNamespace(m, ps) ==
    LET mandatory == assertMandatoryParams(ps)
        mode == ps.PersistentVolumeAccessMode
    IN  IF mandatory # NoErr THEN [vm |-> NoObject, err |-> mandatory]
        ELSE IF mode # "" /\ mode \notin {"ReadWriteMany", "ReadOnlyMany", "ReadWriteOnce"}
        THEN [vm |-> NoObject,
              err |-> InvalidMachineConfiguration(
                        <<MachineName, "Value of PersistentVolumeAccessMode, can be only one of",
                          "ReadWriteMany", "ReadOnlyMany", "ReadWriteOnce">>)]
        ELSE [vm |-> [isNil |-> FALSE,
                      name |-> MachineName,
                      namespace |-> "test-machine-namespace",
                      bootVolume |-> buildBootVolumeName(MachineName),
                      ignitionSecret |-> buildIgnitionSecretName(MachineName),
                      sourcePvc |-> ps.SourcePvcName,
                      network |-> ps.NetworkName,
                      accessMode |-> IF mode = "" THEN defaultPersistentVolumeAccessMode ELSE mode,
                      labels |-> [instanceType |-> m.instanceType, owned |-> InfraID],
                      annotations |-> [vmId |-> m.vmId, instanceState |-> m.instanceState]],
              err |-> NoErr]

\* The VirtualMachine built from the machine: [vm, err].  The object carries
\* the machine's labels and annotations next to the configured fields.
CreateVirtualMachineFromMachine(m, ps) ==
    LET mandatory == assertMandatoryParams(ps)
        mode == ps.PersistentVolumeAccessMode
    IN  IF mandatory # NoErr THEN [vm |-> NoObject, err |-> mandatory]
        ELSE IF mode # "" /\ mode \notin {"ReadWriteMany", "ReadOnlyMany", "ReadWriteOnce"}
        THEN [vm |-> NoObject,
              err |-> InvalidMachineConfiguration(
                        <<MachineName, "Value of PersistentVolumeAccessMode, can be only one of",
                          "ReadWriteMany", "ReadOnlyMany", "ReadWriteOnce">>)]
        ELSE [vm |-> [isNil |-> FALSE,
                      name |-> MachineName,
                      namespace |-> InfraNamespace,
                      bootVolume |-> buildBootVolumeName(MachineName),
                      ignitionSecret |-> buildIgnitionSecretName(MachineName),
                      sourcePvc |-> ps.SourcePvcName,
                      network |-> ps.NetworkName,
                      accessMode |-> IF mode = "" THEN defaultPersistentVolumeAccessMode ELSE mode,
                      labels |-> [instanceType |-> m.instanceType, owned |-> InfraID],
                      annotations |-> [vmId |-> m.vmId, instanceState |-> m.instanceState]],
              err |-> NoErr]

CreateIgnitionSecretFromMachine(userData) ==
    [name |-> buildIgnitionSecretName(MachineName),
     namespace |-> InfraNamespace,
     labels |-> [owned |-> InfraID],
     userdata |-> userData]

\* Mutant: the gate with the timestamp test inverted.
UpdateAllowedElapsed(m, interval, t) ==
    /\ ~m.providerID.nil
    /\ m.providerID.str # <<>>
    /\ (LastUpdatedIsNil(m) \/ ~(m.lastUpdated + interval > t))

\* Mutant: the gate that lets a machine without provider id through.
UpdateAllowedUnsynced(m, interval, t) ==
    \/ m.providerID.nil
    \/ m.providerID.str = <<>>
    \/ (LastUpdatedIsNil(m) \/ m.lastUpdated + interval > t)

\* Mutant: the gate that ignores a missing timestamp.
UpdateAllowedNoNil(m, interval, t) ==
    /\ ~m.providerID.nil
    /\ m.providerID.str # <<>>
    /\ ~LastUpdatedIsNil(m)
    /\ m.lastUpdated + interval > t

\* s.machine.Status.LastUpdated.Add(interval*time.Second).After(time.Now())
UpdateAllowed(m, interval, t) ==
    /\ ~m.providerID.nil
    /\ m.providerID.str # <<>>
    /\ (LastUpdatedIsNil(m) \/ m.lastUpdated + interval > t)

\* Mutant: the ready flag looked at before the created flag.
vmStateReadyFirst(created, ready) ==
    IF ready THEN vmCreatedAndReady
    ELSE IF created THEN vmCreatedNotReady ELSE vmNotCreated

vmState(created, ready) ==
    IF created
    THEN IF ready THEN vmCreatedAndReady ELSE vmCreatedNotReady
    ELSE vmNotCreated

\* Mutant: the provider id written on every sync.
existingProviderIDDiffersAlways(m, providerID) == TRUE

\* syncProviderID goes on to the assignment: the machine has no provider id,
\* or one that is not providerID.
existingProviderIDDiffers(m, providerID) ==
    ~(~m.providerID.nil /\ m.providerID.str = providerID)

syncProviderID(m, providerID) ==
    IF existingProviderIDDiffers(m, providerID)
    THEN [m EXCEPT !.providerID = Str(providerID)]
    ELSE m

\* Mutant: an instance state that only moves forward.
syncMachineAnnotationsAndLabelsForward(m, v) ==
    LET observed == vmState(v.created, v.ready)
    IN  [m EXCEPT !.vmId = v.uid,
                  !.instanceType = IF v.hasTemplate THEN v.machineType ELSE @,
                  !.instanceState =
                      IF @ = vmCreatedAndReady THEN @
                      ELSE IF @ = vmCreatedNotReady /\ observed = vmNotCreated THEN @
                      ELSE observed]

syncMachineAnnotationsAndLabels(m, v) ==
    [m EXCEPT !.vmId = v.uid,
              !.instanceType = IF v.hasTemplate THEN v.machineType ELSE @,
              !.instanceState = vmState(v.created, v.ready)]

\* The answer of the DNS lookup for the instance's name.
LookupIP(fails) ==
    IF fails THEN [ok |-> FALSE, ips |-> <<>>]
    ELSE [ok |-> TRUE, ips |-> <<[address |-> "10.0.0.7", v4 |-> TRUE],
                                 [address |-> "fe80::7", v4 |-> FALSE]>>]

\* ips: the answer of the DNS lookup, [ok, ips]; only IPv4 answers are kept.
syncNetworkAddresses(m, vmiName, dns) ==
    LET v4 == IF dns.ok THEN SelectSeq(dns.ips, LAMBDA ip : ip.v4) ELSE <<>>
        ipAddresses == [i \in 1..Len(v4) |-> [type |-> "InternalIP", address |-> v4[i].address]]
    IN  [m EXCEPT !.addresses = <<[type |-> "InternalDNS", address |-> vmiName]>> \o ipAddresses]

\* [machine, err]; marshalOK is the outcome of RawExtensionFromProviderStatus.
syncProviderStatus(m, v, marshalOK) ==
    IF ~marshalOK
    THEN [machine |-> m,
          err |-> InvalidMachineConfiguration(<<"failed to get machine provider status">>)]
    ELSE [machine |-> [m EXCEPT !.providerStatus =
                          [set |-> TRUE, created |-> v.created, ready |-> v.ready]],
          err |-> NoErr]

SyncMachine(m, v, vmiName, providerID, dns, marshalOK) ==
    syncProviderStatus(
        syncNetworkAddresses(
            syncMachineAnnotationsAndLabels(syncProviderID(m, providerID), v),
            vmiName, dns),
        v, marshalOK)

----------------------------------------------------------------------------
(* Infra-cluster client.  Each call returns the new cluster object next to *)
(* its Go results; fails is TRUE when the call fails in transit.           *)

NoVM == NoObject

\* The version token of a stored object.  Tokens are opaque: the code only
\* compares the token it fetched with the token a write returns, and the
\* infra cluster hands out a new token exactly when a write changes the
\* object, so a token stands for the content it was handed out for.
ResourceVersion(spec, created, ready) == <<"rv", spec, created, ready>>

\* A VirtualMachine as the infra cluster stores and returns it.
StoredVM(obj) ==
    [isNil |-> FALSE, spec |-> obj, name |-> obj.name, namespace |-> obj.namespace,
     rv |-> ResourceVersion(obj, FALSE, FALSE), created |-> FALSE, ready |-> FALSE, uid |-> VMUID,
     hasTemplate |-> TRUE, machineType |-> "", deleting |-> FALSE,
     deleteOptions |-> NoObject]

GetVirtualMachine(cur, fails) ==
    IF fails THEN [vm |-> NoObject, err |-> Wrap(ServerError("virtualmachines"), "failed to get VirtualMachine")]
    ELSE IF cur.isNil THEN [vm |-> NoObject, err |-> NotFoundError("virtualmachines")]
    ELSE [vm |-> cur, err |-> NoErr]

CreateVirtualMachine(cur, obj, fails) ==
    IF fails THEN [stored |-> cur, vm |-> NoObject,
                   err |-> Wrap(ServerError("virtualmachines"), "failed to create virtualmachines")]
    ELSE IF ~cur.isNil THEN [stored |-> cur, vm |-> NoObject,
                   err |-> Wrap(AlreadyExistsError("virtualmachines"), "failed to create virtualmachines")]
    ELSE [stored |-> StoredVM(obj), vm |-> StoredVM(obj), err |-> NoErr]

\* sent: the desired object with the version token and the status pair put on it.
UpdateVirtualMachine(cur, sent, fails) ==
    IF fails THEN [stored |-> cur, vm |-> NoObject, err |-> ServerError("virtualmachines")]
    ELSE IF cur.isNil THEN [stored |-> cur, vm |-> NoObject, err |-> NotFoundError("virtualmachines")]
    ELSE IF sent.rv # cur.rv THEN [stored |-> cur, vm |-> NoObject,
                   err |-> [kind |-> "Conflict", after |-> 0, msg |-> <<"virtualmachines", "conflict">>]]
    ELSE IF sent.spec = cur.spec /\ sent.created = cur.created /\ sent.ready = cur.ready
         THEN [stored |-> cur, vm |-> cur, err |-> NoErr]
    ELSE LET new == [cur EXCEPT !.spec = sent.spec, !.created = sent.created,
                                !.ready = sent.ready,
                                !.rv = ResourceVersion(sent.spec, sent.created, sent.ready)]
         IN  [stored |-> new, vm |-> new, err |-> NoErr]

\* metav1.DeleteOptions{GracePeriodSeconds: &gracePeriod} and metav1.DeleteOptions{}
DeleteOptions(seconds) == [isNil |-> FALSE, GracePeriodSeconds |-> [nil |-> FALSE, val |-> seconds]]
EmptyDeleteOptions == [isNil |-> FALSE, GracePeriodSeconds |-> [nil |-> TRUE, val |-> 0]]

\* deleteResource sends empty delete options whatever options it is given.
deleteResource(cur, options, fails) ==
    IF fails THEN [stored |-> cur, err |-> ServerError("virtualmachines")]
    ELSE IF cur.isNil THEN [stored |-> cur, err |-> NotFoundError("virtualmachines")]
    ELSE [stored |-> [cur EXCEPT !.deleting = TRUE,
                                 !.deleteOptions = EmptyDeleteOptions],
          err |-> NoErr]

DeleteVirtualMachine(cur, options, fails) == deleteResource(cur, options, fails)

GetVirtualMachineInstance(exists, fails) ==
    IF fails THEN [name |-> "", err |-> Wrap(ServerError("virtualmachineinstances"), "failed to get VirtualMachineInstance")]
    ELSE IF ~exists THEN [name |-> "", err |-> NotFoundError("virtualmachineinstances")]
    ELSE [name |-> VMIName, err |-> NoErr]

CreateSecret(cur, newSecret, fails) ==
    IF fails THEN [stored |-> cur, err |-> ServerError("secrets")]
    ELSE IF ~cur.isNil THEN [stored |-> cur, err |-> AlreadyExistsError("secrets")]
    ELSE [stored |-> [isNil |-> FALSE, obj |-> newSecret], err |-> NoErr]

----------------------------------------------------------------------------
(* Tenant-cluster client *)

\* A key that a JSON object does not have.
NoKey == [has |-> FALSE]

\* The bootstrap payload of the user-data secret, a JSON object: no "storage"
\* key in it.
UserDataPayload == [ignition |-> "3.1.0", passwd |-> NoKey, storage |-> NoKey]

\* The cloud-provider-config config map as the tenant cluster answers for it.
\* read: "ok", or how reading its value fails: the Get failing ("NotFound",
\* "ServerError"), the data key missing ("nokey"), the value not a JSON map of
\* strings ("malformed").  cMap: the keys of the decoded value.
ConfigMap(read, infraID, infraNamespace) ==
    [read |-> read, cMap |-> [infraID |-> infraID, namespace |-> infraNamespace]]

\* [cMap, err]
GetConfigMapValue(cm) ==
    CASE cm.read = "NotFound" -> [cMap |-> NoObject, err |-> NotFoundError("configmaps")]
      [] cm.read = "ServerError" -> [cMap |-> NoObject, err |-> ServerError("configmaps")]
      [] cm.read = "nokey" ->
            [cMap |-> NoObject,
             err |-> InvalidMachineConfiguration(<<"Tenant-cluster configMap", "doesn't contain the key", "config">>)]
      [] cm.read = "malformed" ->
            [cMap |-> NoObject,
             err |-> InvalidMachineConfiguration(<<"Tenant-cluster configMap", "Data of key", "config",
                                                   "is not of type map[string]string">>)]
      [] OTHER -> [cMap |-> cm.cMap, err |-> NoErr]

\* state: "missing", "nokey" or "ok"
GetSecret(state, fails) ==
    IF fails THEN [data |-> "none", err |-> ServerError("secrets")]
    ELSE IF state = "missing" THEN [data |-> "none", err |-> NotFoundError("secrets")]
    ELSE [data |-> state, err |-> NoErr]

\* The spec patch stores what the machine holds outside its status.
PatchMachine(stored, m, fails) ==
    IF fails THEN [stored |-> stored, err |-> ServerError("machines")]
    ELSE [stored |-> [stored EXCEPT !.providerID = m.providerID, !.vmId = m.vmId,
                                    !.instanceState = m.instanceState,
                                    !.instanceType = m.instanceType],
          err |-> NoErr]

\* The status patch stores the machine's status.
StatusPatchMachine(stored, m, fails) ==
    IF fails THEN [stored |-> stored, err |-> ServerError("machines/status")]
    ELSE [stored |-> [stored EXCEPT !.addresses = m.addresses,
                                    !.providerStatus = m.providerStatus],
          err |-> NoErr]

----------------------------------------------------------------------------
(* VM manager (package kubevirt).  An operation returns the infra cluster  *)
(* it leaves (vm, vmi, secret), the machine it leaves in memory (m), its   *)
(* Go results (err, wasUpdated, exists) and what it did on the way: the    *)
(* calls it issued and how the lookup of the backing VM ended.             *)

\* A call on a client: what it addressed, the argument it carried and the
\* object it returned (NoObject where the model does not follow them).
CallWith(call, namespace, name, arg, ret) ==
    [call |-> call, namespace |-> namespace, name |-> name, arg |-> arg, ret |-> ret]

Call(call, namespace, name) == CallWith(call, namespace, name, NoObject, NoObject)

Outcome(vm_, vmi_, secret_, m_, err_, calls_, lookup_, wasUpdated_, exists_) ==
    [vm |-> vm_, vmi |-> vmi_, secret |-> secret_, m |-> m_, err |-> err_,
     calls |-> calls_, lookup |-> lookup_, wasUpdated |-> wasUpdated_,
     exists |-> exists_, gate |-> "none"]

LookupOf(err) == IF err = NoErr THEN "found" ELSE IF IsNotFound(err) THEN "NotFound" ELSE "error"

\* json.Unmarshal into a map[string]interface{}: a list in the document is
\* decoded as a []interface{}.
Unmarshal(src) ==
    IF src.storage.has /\ src.storage.files.has
    THEN [src EXCEPT !.storage.files = [has |-> TRUE, list |-> @.list, type |-> "[]interface {}"]]
    ELSE src

\* json.Marshal writes the values, whatever their Go types.
Marshal(dataMap) ==
    [dataMap EXCEPT !.storage.files = [has |-> TRUE, list |-> @.list]]

\* [data, err, panics]: the payload with the hostname file, or the panic of the
\* type assertion on storage["files"].
addHostnameToUserData(src, hostname) ==
    LET dataMap == Unmarshal(src)
        withStorage == IF dataMap.storage.has THEN dataMap
                       ELSE [dataMap EXCEPT !.storage = [has |-> TRUE, disks |-> NoKey, files |-> NoKey]]
        withFiles == IF withStorage.storage.files.has THEN withStorage
                     ELSE [withStorage EXCEPT !.storage.files =
                              [has |-> TRUE, list |-> <<>>, type |-> "[]map[string]interface {}"]]
        newFile == [filesystem |-> "root", path |-> "/etc/hostname", mode |-> 420,
                    contents |-> [source |-> <<"data:,", hostname>>]]
    IN  IF withFiles.storage.files.type # "[]map[string]interface {}"
        THEN [data |-> NoObject, err |-> NoErr, panics |-> TRUE]
        ELSE [data |-> Marshal([withFiles EXCEPT !.storage.files.list = Append(@, newFile)]),
              err |-> NoErr, panics |-> FALSE]

\* Mutant: the fetch of the runtime instance tried a second time after a
\* failure.
syncMachineRetries(vmiExists, v, m, operation, F) ==
    LET g == GetVirtualMachineInstance(vmiExists, "GetVirtualMachineInstance" \in F)
        s == SyncMachine(m, v, g.name, FormatProviderID(v.namespace, v.name),
                         LookupIP("LookupIP" \in F), "Marshal" \notin F)
        calls == <<Call("GetVirtualMachineInstance", v.namespace, v.name)>>
    IN  IF g.err # NoErr
        THEN [m |-> m, calls |-> calls \o calls,
              err |-> Errorf(<<MachineName, "Error during", operation,
                               "failed to get vmi of the Machine">> \o g.err.msg)]
        ELSE IF s.err # NoErr
        THEN [m |-> s.machine, calls |-> calls,
              err |-> Errorf(<<MachineName, "Error during", operation,
                               "failed to sync the Machine">> \o s.err.msg)]
        ELSE [m |-> s.machine, calls |-> calls, err |-> NoErr]

\* Mutant: the provider id, annotations and labels synced from the VM before
\* the runtime instance is fetched.
syncMachineBeforeFetch(vmiExists, v, m, operation, F) ==
    LET g == GetVirtualMachineInstance(vmiExists, "GetVirtualMachineInstance" \in F)
        providerID == FormatProviderID(v.namespace, v.name)
        s == SyncMachine(m, v, g.name, providerID,
                         LookupIP("LookupIP" \in F), "Marshal" \notin F)
        calls == <<Call("GetVirtualMachineInstance", v.namespace, v.name)>>
    IN  IF g.err # NoErr
        THEN [m |-> syncMachineAnnotationsAndLabels(syncProviderID(m, providerID), v),
              calls |-> calls,
              err |-> Errorf(<<MachineName, "Error during", operation,
                               "failed to get vmi of the Machine">> \o g.err.msg)]
        ELSE IF s.err # NoErr
        THEN [m |-> s.machine, calls |-> calls,
              err |-> Errorf(<<MachineName, "Error during", operation,
                               "failed to sync the Machine">> \o s.err.msg)]
        ELSE [m |-> s.machine, calls |-> calls, err |-> NoErr]

\* [m, err, calls]
syncMachine(vmiExists, v, m, operation, F) ==
    LET g == GetVirtualMachineInstance(vmiExists, "GetVirtualMachineInstance" \in F)
        s == SyncMachine(m, v, g.name, FormatProviderID(v.namespace, v.name),
                         LookupIP("LookupIP" \in F), "Marshal" \notin F)
        calls == <<Call("GetVirtualMachineInstance", v.namespace, v.name)>>
    IN  IF g.err # NoErr
        THEN [m |-> m, calls |-> calls,
              err |-> Errorf(<<MachineName, "Error during", operation,
                               "failed to get vmi of the Machine">> \o g.err.msg)]
        ELSE IF s.err # NoErr
        THEN [m |-> s.machine, calls |-> calls,
              err |-> Errorf(<<MachineName, "Error during", operation,
                               "failed to sync the Machine">> \o s.err.msg)]
        ELSE [m |-> s.machine, calls |-> calls, err |-> NoErr]

\* Mutant: Create going on after the secret could not be created.
managerCreateKeepsGoing(c, m, ps, userData, F, race) ==
    LET secretFromMachine == CreateIgnitionSecretFromMachine(addHostnameToUserData(userData, MachineName).data)
        sec == CreateSecret(c.secret, secretFromMachine, "CreateSecret" \in F)
        c1 == <<Call("CreateSecret", secretFromMachine.namespace, secretFromMachine.name)>>
        built == CreateVirtualMachineFromMachine(m, ps)
        cr == CreateVirtualMachine(c.vm, built.vm, "CreateVirtualMachine" \in F)
        c2 == Append(c1, Call("CreateVirtualMachine", built.vm.namespace, built.vm.name))
        vmiNow == c.vmi \/ race
        sy == syncMachine(vmiNow, cr.vm, m, "Create", F)
    IN  IF built.err # NoErr
        THEN Outcome(c.vm, c.vmi, sec.stored, m,
                     Errorf(<<MachineName, "Error during Create: failed to build Virtual Machine struct">> \o built.err.msg),
                     c1, "none", FALSE, FALSE)
        ELSE IF cr.err # NoErr
        THEN Outcome(c.vm, c.vmi, sec.stored, m,
                     Errorf(<<MachineName, "Error during Create: failed to create Virtual Machine in infraCluster">> \o cr.err.msg),
                     c2, "none", FALSE, FALSE)
        ELSE Outcome(cr.stored, vmiNow, sec.stored, sy.m, sy.err, c2 \o sy.calls,
                     "none", FALSE, FALSE)

\* race: the infra cluster starts the runtime instance while Create is running.
managerCreate(c, m, ps, userData, F, race) ==
    LET secretFromMachine == CreateIgnitionSecretFromMachine(addHostnameToUserData(userData, MachineName).data)
        sec == CreateSecret(c.secret, secretFromMachine, "CreateSecret" \in F)
        c1 == <<Call("CreateSecret", secretFromMachine.namespace, secretFromMachine.name)>>
        built == CreateVirtualMachineFromMachine(m, ps)
        cr == CreateVirtualMachine(c.vm, built.vm, "CreateVirtualMachine" \in F)
        c2 == Append(c1, Call("CreateVirtualMachine", built.vm.namespace, built.vm.name))
        vmiNow == c.vmi \/ race
        sy == syncMachine(vmiNow, cr.vm, m, "Create", F)
    IN  IF sec.err # NoErr
        THEN Outcome(c.vm, c.vmi, c.secret, m,
                     Errorf(<<MachineName, "Error during Create: failed to create ignition secret in infraCluster">> \o sec.err.msg),
                     c1, "none", FALSE, FALSE)
        ELSE IF built.err # NoErr
        THEN Outcome(c.vm, c.vmi, sec.stored, m,
                     Errorf(<<MachineName, "Error during Create: failed to build Virtual Machine struct">> \o built.err.msg),
                     c1, "none", FALSE, FALSE)
        ELSE IF cr.err # NoErr
        THEN Outcome(c.vm, c.vmi, sec.stored, m,
                     Errorf(<<MachineName, "Error during Create: failed to create Virtual Machine in infraCluster">> \o cr.err.msg),
                     c2, "none", FALSE, FALSE)
        ELSE Outcome(cr.stored, vmiNow, sec.stored, sy.m, sy.err, c2 \o sy.calls,
                     "none", FALSE, FALSE)

managerDelete(c, m, ps, F) ==
    LET built == CreateVirtualMachineFromMachine(m, ps)
        g == GetVirtualMachine(c.vm, "GetVirtualMachine" \in F)
        c1 == <<Call("GetVirtualMachine", built.vm.namespace, built.vm.name)>>
        d == DeleteVirtualMachine(c.vm, DeleteOptions(gracePeriod),
                                  "DeleteVirtualMachine" \in F)
        c2 == Append(c1, CallWith("DeleteVirtualMachine", g.vm.namespace, g.vm.name,
                                  DeleteOptions(gracePeriod), NoObject))
    IN  IF built.err # NoErr
        THEN Outcome(c.vm, c.vmi, c.secret, m,
                     Errorf(<<MachineName, "Error during Delete: failed to build Virtual Machine struct">> \o built.err.msg),
                     <<>>, "none", FALSE, FALSE)
        ELSE IF g.err # NoErr
        THEN IF IsNotFound(g.err)
             THEN Outcome(c.vm, c.vmi, c.secret, m, NoErr, c1, "NotFound", FALSE, FALSE)
             ELSE Outcome(c.vm, c.vmi, c.secret, m,
                          Errorf(<<MachineName, "Error during Delete: failed to get Virtual Machine from infraCluster">> \o g.err.msg),
                          c1, "error", FALSE, FALSE)
        ELSE IF d.err # NoErr
        THEN Outcome(c.vm, c.vmi, c.secret, m,
                     Errorf(<<MachineName, "Error during Delete: failed to delete Virtual Machine in infraCluster">> \o d.err.msg),
                     c2, "found", FALSE, FALSE)
        ELSE Outcome(d.stored, c.vmi, c.secret, m, NoErr, c2, "found", FALSE, FALSE)

\* Mutant: the desired object sent with the status the derivation left on it.
withObservedTokenOnly(virtualMachineFromMachine, existingVM) ==
    [spec |-> virtualMachineFromMachine, rv |-> existingVM.rv,
     created |-> FALSE, ready |-> FALSE]

\* The desired object with the version token and the status pair of the
\* fetched VM put on it.
withObserved(virtualMachineFromMachine, existingVM) ==
    [spec |-> virtualMachineFromMachine, rv |-> existingVM.rv,
     created |-> existingVM.created, ready |-> existingVM.ready]

\* Mutant: every update call reported as a change.
wasUpdatedAlways(previousResourceVersion, currentResourceVersion) == TRUE

\* Mutant: the comparison of the version tokens inverted.
wasUpdatedInverted(previousResourceVersion, currentResourceVersion) ==
    previousResourceVersion = currentResourceVersion

wasUpdated(previousResourceVersion, currentResourceVersion) ==
    previousResourceVersion # currentResourceVersion

\* Mutant: the machine synced from the fetched VM before the update is
\* submitted, so that a failing update leaves a changed machine behind.
managerUpdateSyncsFirst(c, m, ps, F) ==
    LET built == CreateVirtualMachineFromMachine(m, ps)
        g == GetVirtualMachine(c.vm, "GetVirtualMachine" \in F)
        c1 == <<CallWith("GetVirtualMachine", built.vm.namespace, built.vm.name, NoObject, g.vm)>>
        previousResourceVersion == g.vm.rv
        early == syncMachineAnnotationsAndLabels(m, g.vm)
        sent == withObserved(built.vm, g.vm)
        u == UpdateVirtualMachine(c.vm, sent, "UpdateVirtualMachine" \in F)
        c2 == Append(c1, CallWith("UpdateVirtualMachine", built.vm.namespace, built.vm.name,
                                  sent, u.vm))
        currentResourceVersion == u.vm.rv
        sy == syncMachine(c.vmi, u.vm, early, "Update", F)
    IN  IF built.err # NoErr
        THEN Outcome(c.vm, c.vmi, c.secret, m,
                     Errorf(<<MachineName, "Error during Update: failed to build Virtual Machine struct">> \o built.err.msg),
                     <<>>, "none", FALSE, FALSE)
        ELSE IF g.err # NoErr
        THEN Outcome(c.vm, c.vmi, c.secret, m,
                     Errorf(<<MachineName, "Error during Update: failed to get Virtual Machine from infraCluster">> \o g.err.msg),
                     c1, LookupOf(g.err), FALSE, FALSE)
        ELSE IF u.err # NoErr
        THEN Outcome(c.vm, c.vmi, c.secret, early,
                     Errorf(<<MachineName, "Error during Update: failed to update Virtual Machine in infraCluster">> \o u.err.msg),
                     c2, "found", FALSE, FALSE)
        ELSE Outcome(u.stored, c.vmi, c.secret, sy.m, sy.err, c2 \o sy.calls,
                     "found", wasUpdated(previousResourceVersion, currentResourceVersion), FALSE)

\* Mutant: an Update that creates the VM it does not find.
managerUpdateCreatesAbsent(c, m, ps, F) ==
    LET built == CreateVirtualMachineFromMachine(m, ps)
        g == GetVirtualMachine(c.vm, "GetVirtualMachine" \in F)
        c1 == <<CallWith("GetVirtualMachine", built.vm.namespace, built.vm.name, NoObject, g.vm)>>
        previousResourceVersion == g.vm.rv
        sent == withObserved(built.vm, g.vm)
        u == UpdateVirtualMachine(c.vm, sent, "UpdateVirtualMachine" \in F)
        c2 == Append(c1, CallWith("UpdateVirtualMachine", built.vm.namespace, built.vm.name,
                                  sent, u.vm))
        currentResourceVersion == u.vm.rv
        sy == syncMachine(c.vmi, u.vm, m, "Update", F)
    IN  IF built.err # NoErr
        THEN Outcome(c.vm, c.vmi, c.secret, m,
                     Errorf(<<MachineName, "Error during Update: failed to build Virtual Machine struct">> \o built.err.msg),
                     <<>>, "none", FALSE, FALSE)
        ELSE IF g.err # NoErr /\ IsNotFound(g.err)
        THEN Outcome(CreateVirtualMachine(c.vm, built.vm, FALSE).stored, c.vmi, c.secret, m,
                     NoErr, c1, "NotFound", FALSE, FALSE)
        ELSE IF g.err # NoErr
        THEN Outcome(c.vm, c.vmi, c.secret, m,
                     Errorf(<<MachineName, "Error during Update: failed to get Virtual Machine from infraCluster">> \o g.err.msg),
                     c1, LookupOf(g.err), FALSE, FALSE)
        ELSE IF u.err # NoErr
        THEN Outcome(c.vm, c.vmi, c.secret, m,
                     Errorf(<<MachineName, "Error during Update: failed to update Virtual Machine in infraCluster">> \o u.err.msg),
                     c2, "found", FALSE, FALSE)
        ELSE Outcome(u.stored, c.vmi, c.secret, sy.m, sy.err, c2 \o sy.calls,
                     "found", wasUpdated(previousResourceVersion, currentResourceVersion), FALSE)

managerUpdate(c, m, ps, F) ==
    LET built == CreateVirtualMachineFromMachine(m, ps)
        g == GetVirtualMachine(c.vm, "GetVirtualMachine" \in F)
        c1 == <<CallWith("GetVirtualMachine", built.vm.namespace, built.vm.name, NoObject, g.vm)>>
        previousResourceVersion == g.vm.rv
        sent == withObserved(built.vm, g.vm)
        u == UpdateVirtualMachine(c.vm, sent, "UpdateVirtualMachine" \in F)
        c2 == Append(c1, CallWith("UpdateVirtualMachine", built.vm.namespace, built.vm.name,
                                  sent, u.vm))
        currentResourceVersion == u.vm.rv
        sy == syncMachine(c.vmi, u.vm, m, "Update", F)
    IN  IF built.err # NoErr
        THEN Outcome(c.vm, c.vmi, c.secret, m,
                     Errorf(<<MachineName, "Error during Update: failed to build Virtual Machine struct">> \o built.err.msg),
                     <<>>, "none", FALSE, FALSE)
        ELSE IF g.err # NoErr
        THEN Outcome(c.vm, c.vmi, c.secret, m,
                     Errorf(<<MachineName, "Error during Update: failed to get Virtual Machine from infraCluster">> \o g.err.msg),
                     c1, LookupOf(g.err), FALSE, FALSE)
        ELSE IF u.err # NoErr
        THEN Outcome(c.vm, c.vmi, c.secret, m,
                     Errorf(<<MachineName, "Error during Update: failed to update Virtual Machine in infraCluster">> \o u.err.msg),
                     c2, "found", FALSE, FALSE)
        ELSE Outcome(u.stored, c.vmi, c.secret, sy.m, sy.err, c2 \o sy.calls,
                     "found", wasUpdated(previousResourceVersion, currentResourceVersion), FALSE)

\* Mutant: a VM that is not found reported as an error.
managerExistsStrict(c, m, machineName, infraNamespace, F) ==
    LET g == GetVirtualMachine(c.vm, "GetVirtualMachine" \in F)
        c1 == <<Call("GetVirtualMachine", infraNamespace, machineName)>>
    IN  IF g.err # NoErr
        THEN Outcome(c.vm, c.vmi, c.secret, m,
                     Errorf(<<machineName, "Error during Exists: failed to get vm of the Machine">> \o g.err.msg),
                     c1, LookupOf(g.err), FALSE, FALSE)
        ELSE Outcome(c.vm, c.vmi, c.secret, m, NoErr, c1, "found", FALSE, TRUE)

managerExists(c, m, machineName, infraNamespace, F) ==
    LET g == GetVirtualMachine(c.vm, "GetVirtualMachine" \in F)
        c1 == <<Call("GetVirtualMachine", infraNamespace, machineName)>>
    IN  IF g.err # NoErr
        THEN IF IsNotFound(g.err)
             THEN Outcome(c.vm, c.vmi, c.secret, m, NoErr, c1, "NotFound", FALSE, FALSE)
             ELSE Outcome(c.vm, c.vmi, c.secret, m,
                          Errorf(<<machineName, "Error during Exists: failed to get vm of the Machine">> \o g.err.msg),
                          c1, "error", FALSE, FALSE)
        ELSE Outcome(c.vm, c.vmi, c.secret, m, NoErr, c1, "found", FALSE, TRUE)

----------------------------------------------------------------------------
(* VM manager, package vm: the update step of its Update.  t is the time   *)
(* of the call.                                                            *)

updateVM(c, m, built, F, t) ==
    LET g == GetVirtualMachine(c.vm, "GetVirtualMachine" \in F)
        c1 == <<Call("GetVirtualMachine", built.namespace, built.name)>>
        allowed == UpdateAllowed(m, requeueAfterSeconds, t)
        previousResourceVersion == g.vm.rv
        sent == withObserved(built, g.vm)
        u == UpdateVirtualMachine(c.vm, sent, "UpdateVirtualMachine" \in F)
        c2 == Append(c1, Call("UpdateVirtualMachine", built.namespace, built.name))
    IN  IF g.err # NoErr
        THEN Outcome(c.vm, c.vmi, c.secret, m, g.err, c1, LookupOf(g.err), FALSE, FALSE)
        ELSE IF g.vm.isNil
        THEN [Outcome(c.vm, c.vmi, c.secret, m,
                      IF allowed THEN RequeueAfterError(requeueAfterSeconds)
                                 ELSE RequeueAfterError(requeueAfterFatalSeconds),
                      c1, "nil", FALSE, FALSE)
              EXCEPT !.gate = IF allowed THEN "allowed" ELSE "denied"]
        ELSE IF u.err # NoErr
        THEN Outcome(c.vm, c.vmi, c.secret, m,
                     [u.err EXCEPT !.kind = "wrapError", !.msg = <<"failed to update VM">> \o @],
                     c2, "found", FALSE, FALSE)
        ELSE Outcome(u.stored, c.vmi, c.secret, m, NoErr, c2, "found",
                     wasUpdated(previousResourceVersion, u.vm.rv), FALSE)

----------------------------------------------------------------------------
(* Actuator *)

\* New(...): [actuator, err].
New(cm) ==
    LET v == GetConfigMapValue(cm)
    IN  IF v.err # NoErr THEN [actuator |-> NoObject, err |-> NoErr]
        ELSE IF ~v.cMap.infraID.has
        THEN [actuator |-> NoObject,
              err |-> InvalidMachineConfiguration(<<"Actuator: configMap", "doesn't contain key", "infraID">>)]
        ELSE IF ~v.cMap.namespace.has
        THEN [actuator |-> NoObject,
              err |-> InvalidMachineConfiguration(<<"Actuator: configMap", "doesn't contain key", "namespace">>)]
        ELSE [actuator |-> [isNil |-> FALSE, infraID |-> v.cMap.infraID.val,
                            infraNamespace |-> v.cMap.namespace.val],
              err |-> NoErr]

Event(type, reason) == [type |-> type, reason |-> reason]

createMachineScope(ps) ==
    IF ps.ClusterIDLabel = ""
    THEN InvalidMachineConfiguration(<<MachineName, "missing label", "machine.openshift.io/cluster-api-cluster">>)
    ELSE IF ~ps.Decodable
    THEN InvalidMachineConfiguration(<<"failed to get machine config">>)
    ELSE NoErr

handleMachineError(action, err) ==
    [err |-> Errorf(<<MachineName, "kubevirt wrapper failed to", action>> \o err.msg),
     events |-> <<Event(EventTypeWarning, <<action, "failed">>)>>]

\* [data, err, calls]
getUserData(state, ps, F) ==
    LET g == GetSecret(state, "GetSecret" \in F)
        calls == <<Call("GetSecret", "test-machine-namespace", ps.IgnitionSecretName)>>
    IN  IF g.err # NoErr
        THEN IF IsNotFound(g.err)
             THEN [data |-> "none", calls |-> calls,
                   err |-> InvalidMachineConfiguration(<<"Tenant-cluster credentials secret", "not found">> \o g.err.msg)]
             ELSE [data |-> "none", calls |-> calls, err |-> g.err]
        ELSE IF g.data = "nokey"
        THEN [data |-> "none", calls |-> calls,
              err |-> InvalidMachineConfiguration(<<"Tenant-cluster credentials secret", "doesn't contain the key">>)]
        ELSE [data |-> UserDataPayload, calls |-> calls, err |-> NoErr]

\* Mutant: the status patch attempted whatever the spec patch returned, its
\* result alone returned.
patchMachineStatusAnyway(stored, m, F) ==
    LET p1 == PatchMachine(stored, m, "PatchMachine" \in F)
        p2 == StatusPatchMachine(p1.stored, m, "StatusPatchMachine" \in F)
        c2 == <<Call("PatchMachine", "test-machine-namespace", MachineName),
                Call("StatusPatchMachine", "test-machine-namespace", MachineName)>>
    IN  IF p2.err # NoErr
        THEN [stored |-> p1.stored, calls |-> c2, err |-> Wrap(p2.err, "failed to patch machine status")]
        ELSE [stored |-> p2.stored, calls |-> c2, err |-> NoErr]

patchMachine(stored, m, F) ==
    LET p1 == PatchMachine(stored, m, "PatchMachine" \in F)
        p2 == StatusPatchMachine(p1.stored, m, "StatusPatchMachine" \in F)
        c1 == <<Call("PatchMachine", "test-machine-namespace", MachineName)>>
        c2 == Append(c1, Call("StatusPatchMachine", "test-machine-namespace", MachineName))
    IN  IF p1.err # NoErr
        THEN [stored |-> stored, calls |-> c1, err |-> Wrap(p1.err, "failed to patch machine")]
        ELSE IF p2.err # NoErr
        THEN [stored |-> p1.stored, calls |-> c2, err |-> Wrap(p2.err, "failed to patch machine status")]
        ELSE [stored |-> p2.stored, calls |-> c2, err |-> NoErr]

\* What an operation leaves behind: the clusters and the observation of the call.
\* in: the inputs of the call [ps, userSecret, faults].
Observation(op, invoked, r, storedMachine, mgrErr, patchErr, err, calls, events, in) ==
    [vm |-> r.vm, vmi |-> r.vmi, secret |-> r.secret, machine |-> storedMachine,
     last |-> [op |-> op, invoked |-> invoked, lookup |-> r.lookup, gate |-> r.gate,
               mgrErr |-> mgrErr, patchErr |-> patchErr, err |-> err,
               exists |-> r.exists, wasUpdated |-> r.wasUpdated,
               calls |-> calls, events |-> events, mem |-> r.m, in |-> in,
               interval |-> 0, at |-> 0]]

\* The operation stopped before the manager was invoked.
NotInvoked(op, c, m, action, err, calls, in) ==
    LET h == handleMachineError(action, err)
    IN  Observation(op, FALSE,
                    Outcome(c.vm, c.vmi, c.secret, m, NoErr, <<>>, "none", FALSE, FALSE),
                    m, NoErr, NoErr, h.err, calls, h.events, in)

\* Mutant: the machine persisted only after a successful manager operation.
actuatorCreateNoPersist(c, m, in, race) ==
    LET ud == getUserData(in.userSecret, in.ps, in.faults)
        r == managerCreate(c, m, in.ps, ud.data, in.faults, race)
        p == IF r.err = NoErr THEN patchMachine(m, r.m, in.faults)
             ELSE [stored |-> m, calls |-> <<>>, err |-> NoErr]
        err == IF p.err # NoErr THEN p.err ELSE r.err
        h == handleMachineError(createEventAction, err)
    IN  IF createMachineScope(in.ps) # NoErr
        THEN NotInvoked("Create", c, m, createEventAction, createMachineScope(in.ps), <<>>, in)
        ELSE IF ud.err # NoErr
        THEN NotInvoked("Create", c, m, createEventAction, ud.err, ud.calls, in)
        ELSE Observation("Create", TRUE, r, p.stored, r.err, p.err,
                         IF err # NoErr THEN h.err ELSE NoErr,
                         ud.calls \o r.calls \o p.calls,
                         IF err # NoErr THEN h.events
                         ELSE <<Event(EventTypeNormal, createEventAction)>>, in)

actuatorCreate(c, m, in, race) ==
    LET ud == getUserData(in.userSecret, in.ps, in.faults)
        r == managerCreate(c, m, in.ps, ud.data, in.faults, race)
        p == patchMachine(m, r.m, in.faults)
        err == IF p.err # NoErr THEN p.err ELSE r.err
        h == handleMachineError(createEventAction, err)
    IN  IF createMachineScope(in.ps) # NoErr
        THEN NotInvoked("Create", c, m, createEventAction, createMachineScope(in.ps), <<>>, in)
        ELSE IF ud.err # NoErr
        THEN NotInvoked("Create", c, m, createEventAction, ud.err, ud.calls, in)
        ELSE Observation("Create", TRUE, r, p.stored, r.err, p.err,
                         IF err # NoErr THEN h.err ELSE NoErr,
                         ud.calls \o r.calls \o p.calls,
                         IF err # NoErr THEN h.events
                         ELSE <<Event(EventTypeNormal, createEventAction)>>, in)

actuatorExists(c, m, in) ==
    LET r == managerExists(c, m, MachineName, InfraNamespace, in.faults)
    IN  Observation("Exists", TRUE, r, m, r.err, NoErr, r.err, r.calls, <<>>, in)

\* Mutant: the "Updated" notification raised on every successful Update.
actuatorUpdateNotifiesAlways(c, m, in) ==
    LET r == managerUpdate(c, m, in.ps, in.faults)
        p == patchMachine(m, r.m, in.faults)
        err == IF p.err # NoErr THEN p.err ELSE r.err
        h == handleMachineError(updateEventAction, err)
    IN  IF createMachineScope(in.ps) # NoErr
        THEN NotInvoked("Update", c, m, updateEventAction, createMachineScope(in.ps), <<>>, in)
        ELSE Observation("Update", TRUE, r, p.stored, r.err, p.err,
                         IF err # NoErr THEN h.err ELSE NoErr,
                         r.calls \o p.calls,
                         IF err # NoErr THEN h.events
                         ELSE <<Event(EventTypeNormal, updateEventAction)>>, in)

actuatorUpdate(c, m, in) ==
    LET r == managerUpdate(c, m, in.ps, in.faults)
        p == patchMachine(m, r.m, in.faults)
        err == IF p.err # NoErr THEN p.err ELSE r.err
        h == handleMachineError(updateEventAction, err)
    IN  IF createMachineScope(in.ps) # NoErr
        THEN NotInvoked("Update", c, m, updateEventAction, createMachineScope(in.ps), <<>>, in)
        ELSE Observation("Update", TRUE, r, p.stored, r.err, p.err,
                         IF err # NoErr THEN h.err ELSE NoErr,
                         r.calls \o p.calls,
                         IF err # NoErr THEN h.events
                         ELSE IF r.wasUpdated THEN <<Event(EventTypeNormal, updateEventAction)>>
                         ELSE <<>>, in)

\* Mutant: Delete clearing the machine's provider id and patching the machine.
actuatorDeleteUnsetsProviderID(c, m, in) ==
    LET r == managerDelete(c, m, in.ps, in.faults)
        h == handleMachineError(deleteEventAction, r.err)
        p == patchMachine(m, [r.m EXCEPT !.providerID = NilStr], in.faults)
    IN  IF createMachineScope(in.ps) # NoErr
        THEN NotInvoked("Delete", c, m, deleteEventAction, createMachineScope(in.ps), <<>>, in)
        ELSE Observation("Delete", TRUE, r, IF r.err = NoErr THEN p.stored ELSE m, r.err, NoErr,
                         IF r.err # NoErr THEN h.err ELSE NoErr,
                         IF r.err = NoErr THEN r.calls \o p.calls ELSE r.calls,
                         IF r.err # NoErr THEN h.events
                         ELSE <<Event(EventTypeNormal, deleteEventAction)>>, in)

actuatorDelete(c, m, in) ==
    LET r == managerDelete(c, m, in.ps, in.faults)
        h == handleMachineError(deleteEventAction, r.err)
    IN  IF createMachineScope(in.ps) # NoErr
        THEN NotInvoked("Delete", c, m, deleteEventAction, createMachineScope(in.ps), <<>>, in)
        ELSE Observation("Delete", TRUE, r, m, r.err, NoErr,
                         IF r.err # NoErr THEN h.err ELSE NoErr,
                         r.calls,
                         IF r.err # NoErr THEN h.events
                         ELSE <<Event(EventTypeNormal, deleteEventAction)>>, in)

----------------------------------------------------------------------------
(* The system *)

Input(ps, st, F) == [ps |-> ps, userSecret |-> st, faults |-> F]

\* How far a call's inputs are from the clean case: calls failing in transit,
\* an invalid provider configuration, an unusable user-data secret.
Deviations(in) ==
    Cardinality(in.faults) + (IF in.ps = ValidSpec THEN 0 ELSE 1)
                           + (IF in.userSecret = "ok" THEN 0 ELSE 1)

Inputs(specs, secrets, faults) ==
    {in \in {Input(ps, st, F) : ps \in specs, st \in secrets, F \in SUBSET faults} :
        Deviations(in) <= MaxFaults}

Times ==
    {0, 1, requeueAfterSeconds - 1, requeueAfterSeconds, requeueAfterSeconds + 1,
     requeueAfterFatalSeconds - 1, requeueAfterFatalSeconds, requeueAfterFatalSeconds + 1,
     MaxTime}

Intervals == {0, 1, requeueAfterSeconds, requeueAfterFatalSeconds}

Cluster == [vm |-> vm, vmi |-> vmi, secret |-> secret]

NoInput == Input(ValidSpec, "ok", {})

\* The observation left by a step that is no operation of the provider.
Idle ==
    [op |-> "none", invoked |-> FALSE, lookup |-> "none", gate |-> "none",
     mgrErr |-> NoErr, patchErr |-> NoErr, err |-> NoErr, exists |-> FALSE,
     wasUpdated |-> FALSE, calls |-> <<>>, events |-> <<>>,
     mem |-> NewMachine(NilStr), in |-> NoInput, interval |-> 0, at |-> 0]

CallNames(calls) == {calls[i].call : i \in 1..Len(calls)}

\* Every failure chosen for the call was met: a call failing in transit was
\* issued, the DNS lookup and the marshalling of the provider status were
\* reached (both follow the fetch of the runtime instance).
Effective(o) ==
    \A f \in o.last.in.faults :
        IF f \in {"LookupIP", "Marshal"}
        THEN /\ "GetVirtualMachineInstance" \in CallNames(o.last.calls)
             /\ "GetVirtualMachineInstance" \notin o.last.in.faults
        ELSE f \in CallNames(o.last.calls)

Init ==
    /\ now = 0
    /\ node = NoObject
    /\ machine \in {NewMachine(NilStr), NewMachine(EmptyStr)}
    /\ vm = NoVM
    /\ vmi = FALSE
    /\ secret = NoObject
    /\ last = Idle

Leave(o) ==
    /\ vm' = o.vm
    /\ vmi' = o.vmi
    /\ secret' = o.secret
    /\ machine' = o.machine
    /\ last' = o.last
    /\ UNCHANGED <<now, node>>

\* The inputs of the four operations: a provider configuration, the state of
\* the user-data secret and the calls that fail in transit.
CreateInputs ==
    Inputs(ProviderSpecs, UserSecretStates,
           {"GetSecret", "CreateSecret", "CreateVirtualMachine",
            "GetVirtualMachineInstance", "LookupIP", "Marshal",
            "PatchMachine", "StatusPatchMachine"})

ExistsInputs == Inputs({ValidSpec}, {"ok"}, {"GetVirtualMachine"})

UpdateInputs ==
    Inputs(ProviderSpecs, {"ok"},
           {"GetVirtualMachine", "UpdateVirtualMachine",
            "GetVirtualMachineInstance", "LookupIP", "Marshal",
            "PatchMachine", "StatusPatchMachine"})

DeleteInputs ==
    Inputs(ProviderSpecs, {"ok"}, {"GetVirtualMachine", "DeleteVirtualMachine"})

Create ==
    \E in \in CreateInputs, race \in BOOLEAN :
        \E o \in {actuatorCreate(Cluster, machine, in, race)} :
            /\ Effective(o)
            /\ race => "GetVirtualMachineInstance" \in CallNames(o.last.calls) /\ ~vmi
            /\ Leave(o)

Exists ==
    \E in \in ExistsInputs :
        \E o \in {actuatorExists(Cluster, machine, in)} :
            Effective(o) /\ Leave(o)

Update ==
    \E in \in UpdateInputs :
        \E o \in {actuatorUpdate(Cluster, machine, in)} :
            Effective(o) /\ Leave(o)

Delete ==
    \E in \in DeleteInputs :
        \E o \in {actuatorDelete(Cluster, machine, in)} :
            Effective(o) /\ Leave(o)

(* The infra cluster *)

\* The infra cluster reports a new status pair for the VM.  The two flags are
\* independent fields of the status: any pair can be reported.
InfraStatus ==
    /\ ~vm.isNil
    /\ \E c \in BOOLEAN, r \in BOOLEAN :
        /\ <<c, r>> # <<vm.created, vm.ready>>
        /\ vm' = [vm EXCEPT !.created = c, !.ready = r, !.rv = ResourceVersion(vm.spec, c, r)]
    /\ last' = Idle
    /\ UNCHANGED <<now, node, machine, vmi, secret>>

\* The runtime instance of the VM starts or goes away.
InfraInstance ==
    /\ vmi' = ~vmi
    /\ vmi' => ~vm.isNil
    /\ last' = Idle
    /\ UNCHANGED <<now, node, machine, vm, secret>>

\* The VM leaves the infra cluster with its runtime instance: a deletion
\* completes, or it is removed out of band.
InfraRemoveVM ==
    /\ ~vm.isNil
    /\ vm' = NoVM
    /\ vmi' = FALSE
    /\ last' = Idle
    /\ UNCHANGED <<now, node, machine, secret>>

\* Nothing in the provider deletes the ignition secret; it is cleaned up out
\* of band once the VM is gone.
InfraRemoveSecret ==
    /\ ~secret.isNil
    /\ vm.isNil
    /\ secret' = NoObject
    /\ last' = Idle
    /\ UNCHANGED <<now, node, machine, vm, vmi>>

Next ==
    \/ Create
    \/ Exists
    \/ Update
    \/ Delete
    \/ InfraStatus
    \/ InfraInstance
    \/ InfraRemoveVM
    \/ InfraRemoveSecret

Spec == Init /\ [][Next]_vars

----------------------------------------------------------------------------
(* The reconcile loop of the hosting framework over one valid machine:     *)
(* Exists, then Create when the VM is reported absent, Update otherwise.   *)
(* The loop is under a fair scheduler: a failed reconcile is requeued and  *)
(* the machine is resynced periodically.                                   *)

\* The last reconcile is over: the next one starts with Exists.
ReconcileStarts == ~(last.op = "Exists" /\ last.err = NoErr)

\* The inputs of the loop's operations: the valid machine with its user-data
\* secret in place, and the calls that fail in transit.
LoopCreateInputs ==
    Inputs({ValidSpec}, {"ok"},
           {"GetSecret", "CreateSecret", "CreateVirtualMachine",
            "GetVirtualMachineInstance", "LookupIP", "Marshal",
            "PatchMachine", "StatusPatchMachine"})

LoopUpdateInputs ==
    Inputs({ValidSpec}, {"ok"},
           {"GetVirtualMachine", "UpdateVirtualMachine",
            "GetVirtualMachineInstance", "LookupIP", "Marshal",
            "PatchMachine", "StatusPatchMachine"})

LoopExists ==
    /\ ReconcileStarts
    /\ \E in \in ExistsInputs :
        \E o \in {actuatorExists(Cluster, machine, in)} :
            Effective(o) /\ Leave(o)

LoopCreate ==
    /\ ~ReconcileStarts /\ ~last.exists
    /\ \E in \in LoopCreateInputs, race \in BOOLEAN :
        \E o \in {actuatorCreate(Cluster, machine, in, race)} :
            /\ Effective(o)
            /\ race => "GetVirtualMachineInstance" \in CallNames(o.last.calls) /\ ~vmi
            /\ Leave(o)

LoopUpdate ==
    /\ ~ReconcileStarts /\ last.exists
    /\ \E in \in LoopUpdateInputs :
        \E o \in {actuatorUpdate(Cluster, machine, in)} :
            Effective(o) /\ Leave(o)

\* The infra cluster brings the VM up: it reports it created, starts its
\* runtime instance, reports it ready.
InfraStarts ==
    /\ ~vm.isNil
    /\ \/ /\ ~vm.created
          /\ vm' = [vm EXCEPT !.created = TRUE, !.rv = ResourceVersion(vm.spec, TRUE, vm.ready)]
          /\ vmi' = vmi
       \/ /\ vm.created /\ ~vmi
          /\ vmi' = TRUE
          /\ vm' = vm
       \/ /\ vm.created /\ ~vm.ready
          /\ vm' = [vm EXCEPT !.ready = TRUE, !.rv = ResourceVersion(vm.spec, vm.created, TRUE)]
          /\ vmi' = vmi
    /\ UNCHANGED <<now, node, machine, secret, last>>

NextLoop ==
    \/ LoopExists
    \/ LoopCreate
    \/ LoopUpdate
    \/ InfraStarts

LoopSpec ==
    /\ Init
    /\ [][NextLoop]_vars
    /\ WF_vars(LoopExists)
    /\ WF_vars(LoopCreate)
    /\ WF_vars(LoopUpdate)
    /\ WF_vars(InfraStarts)

----------------------------------------------------------------------------
(* The update-allowed gate and the update step of package vm, under a      *)
(* clock.                                                                  *)

ProviderIDs ==
    {NilStr, EmptyStr, Str(<<"kubevirt">>), Str(FormatProviderID(InfraNamespace, MachineName))}

InitGate ==
    /\ now = 0
    /\ node = NoObject
    /\ \E pid \in ProviderIDs, lu \in {-1, 0} :
          machine = [NewMachine(pid) EXCEPT !.lastUpdated = lu]
    /\ vm \in {NoVM, StoredVM(CreateVirtualMachineFromMachine(NewMachine(NilStr), ValidSpec).vm)}
    /\ vmi = FALSE
    /\ secret = NoObject
    /\ last = Idle

\* Time passes.
Tick ==
    /\ \E t \in Times : t > now /\ now' = t
    /\ last' = Idle
    /\ UNCHANGED <<node, machine, vm, vmi, secret>>

\* machine.Status.LastUpdated is stamped with the current time.
StampLastUpdated ==
    /\ machine.lastUpdated # now
    /\ machine' = [machine EXCEPT !.lastUpdated = now]
    /\ last' = Idle
    /\ UNCHANGED <<now, node, vm, vmi, secret>>

\* machineScope.UpdateAllowed(interval) is asked at the current time.
AskUpdateAllowed ==
    \E interval \in Intervals :
        /\ last' = [Idle EXCEPT !.op = "UpdateAllowed",
                                !.gate = IF UpdateAllowed(machine, interval, now)
                                         THEN "allowed" ELSE "denied",
                                !.mem = machine, !.interval = interval, !.at = now]
        /\ UNCHANGED <<now, node, machine, vm, vmi, secret>>

\* The update step of package vm runs at the current time.
VmUpdateVM ==
    \E F \in {G \in SUBSET {"GetVirtualMachine", "UpdateVirtualMachine"} :
                Cardinality(G) <= MaxFaults} :
        LET built == CreateVirtualMachineFromMachine(machine, ValidSpec).vm
            r == updateVM(Cluster, machine, built, F, now)
        IN  /\ F \subseteq CallNames(r.calls)
            /\ vm' = r.vm
            /\ last' = [Idle EXCEPT !.op = "vm.updateVM", !.invoked = TRUE,
                                    !.lookup = r.lookup, !.gate = r.gate,
                                    !.mgrErr = r.err, !.err = r.err,
                                    !.wasUpdated = r.wasUpdated, !.calls = r.calls,
                                    !.mem = r.m, !.in = Input(ValidSpec, "ok", F),
                                    !.interval = requeueAfterSeconds, !.at = now]
            /\ UNCHANGED <<now, node, machine, vmi, secret>>

NextGate ==
    \/ Tick
    \/ StampLastUpdated
    \/ AskUpdateAllowed
    \/ VmUpdateVM
    \/ InfraStatus
    \/ InfraRemoveVM

GateSpec == InitGate /\ [][NextGate]_vars

----------------------------------------------------------------------------
(* What comes before the infra cluster is reached: the actuator is         *)
(* constructed from the config map, a scope is made for a machine with     *)
(* some provider configuration, and the VM is derived from it.             *)

\* Values of the PersistentVolumeAccessMode field: unset, the three known
\* modes, and values that are none of them.
AccessModes ==
    {"", "ReadWriteMany", "ReadOnlyMany", "ReadWriteOnce", "ReadWriteOncePod", "readwritemany"}

\* Provider configurations with each of the mandatory names present or empty.
Configurations ==
    {[ClusterIDLabel |-> c, Decodable |-> TRUE, SourcePvcName |-> s,
      IgnitionSecretName |-> i, NetworkName |-> n, PersistentVolumeAccessMode |-> a] :
        c \in {"", ValidSpec.ClusterIDLabel},
        s \in {"", ValidSpec.SourcePvcName},
        i \in {"", ValidSpec.IgnitionSecretName},
        n \in {"", ValidSpec.NetworkName},
        a \in AccessModes}

InitScope ==
    /\ now = 0
    /\ node = NoObject
    /\ machine \in {NewMachine(NilStr), NewMachine(EmptyStr)}
    /\ vm = NoVM
    /\ vmi = FALSE
    /\ secret = NoObject
    /\ last = Idle

\* CreateMachineScope is called for the machine with some configuration.
NewMachineScope ==
    \E ps \in Configurations :
        /\ last' = [Idle EXCEPT !.op = "CreateMachineScope", !.invoked = TRUE,
                                !.err = createMachineScope(ps),
                                !.mem = machine, !.in = Input(ps, "ok", {})]
        /\ UNCHANGED <<now, node, machine, vm, vmi, secret>>

\* CreateVirtualMachineFromMachine is called on the scope just made.
DeriveVM ==
    /\ last.op = "CreateMachineScope"
    /\ last.err = NoErr
    /\ LET built == CreateVirtualMachineFromMachine(machine, last.in.ps)
       IN  last' = [last EXCEPT !.op = "CreateVirtualMachineFromMachine",
                                !.err = built.err,
                                !.calls = <<CallWith("CreateVirtualMachineFromMachine",
                                                     InfraNamespace, MachineName,
                                                     last.in.ps, built.vm)>>]
    /\ UNCHANGED <<now, node, machine, vm, vmi, secret>>

\* Values a key of the decoded config map may have, or no such key.
KeyValues(val) == {NoKey, [has |-> TRUE, val |-> ""], [has |-> TRUE, val |-> val]}

ConfigMaps ==
    {ConfigMap(read, NoKey, NoKey) : read \in {"NotFound", "ServerError", "nokey", "malformed"}}
      \cup {ConfigMap("ok", id, ns) : id \in KeyValues(InfraID), ns \in KeyValues(InfraNamespace)}

\* The actuator is constructed against some state of the config map.
NewActuator ==
    \E cm \in ConfigMaps :
        /\ last' = [Idle EXCEPT !.op = "New", !.invoked = TRUE, !.mem = machine,
                                !.err = New(cm).err,
                                !.calls = <<CallWith("GetConfigMapValue", "openshift-config",
                                                     "cloud-provider-config", cm, New(cm).actuator)>>]
        /\ UNCHANGED <<now, node, machine, vm, vmi, secret>>

NextScope ==
    \/ NewActuator
    \/ NewMachineScope
    \/ DeriveVM

ScopeSpec == InitScope /\ [][NextScope]_vars

----------------------------------------------------------------------------
(* The node reconcilers: package nodeupdate, and the older package         *)
(* providerid.  The Node has the name of the machine's VM.                 *)

requeueDurationWhenVMNotReady == 60
RETRY_INTERVAL_VM_NOTREADY == 60

\* providerid.IDFormat and providerid.FormatProviderID
IDFormat(namespace, name) == <<"kubevirt://", namespace, "/", name>>

ProvideridFormatProviderID(namespace, name) == IDFormat(namespace, name)

NodeName == MachineName

\* A Node with its spec.providerID; <<>> is the empty string.
Node(providerID) == [isNil |-> FALSE, name |-> NodeName, providerID |-> providerID]

\* reconcile.Result
Result(requeue, requeueAfter) == [Requeue |-> requeue, RequeueAfter |-> requeueAfter]

\* r.client.Get of the Node: [node, err]
GetNode(cur, fails) ==
    IF fails THEN [node |-> NoObject, err |-> ServerError("nodes")]
    ELSE IF cur.isNil THEN [node |-> NoObject, err |-> NotFoundError("nodes")]
    ELSE [node |-> cur, err |-> NoErr]

\* r.client.Delete of the Node: [stored, err]
DeleteNode(cur, fails) ==
    IF fails THEN [stored |-> cur, err |-> ServerError("nodes")]
    ELSE [stored |-> NoObject, err |-> NoErr]

\* r.client.Update of the Node: [stored, err]
UpdateNode(cur, obj, fails) ==
    IF fails THEN [stored |-> cur, err |-> ServerError("nodes")]
    ELSE [stored |-> obj, err |-> NoErr]

\* tenantClusterClient.GetNamespace: [namespace, err]
GetNamespace(fails) ==
    IF fails THEN [namespace |-> "", err |-> ServerError("infra namespace")]
    ELSE [namespace |-> InfraNamespace, err |-> NoErr]

\* Mutant: a Node never taken to have a provider id.
hasProviderIDNever(n) == FALSE

\* node.Spec.ProviderID != ""
hasProviderID(n) == n.providerID # <<>>

\* What a reconcile leaves: the Node, its results, the calls it issued and how
\* the lookup in the infra cluster ended.
Reconciled(node_, result_, err_, calls_, lookup_) ==
    [node |-> node_, result |-> result_, err |-> err_, calls |-> calls_, lookup |-> lookup_]

\* nodeupdate: providerIDReconciler.Reconcile.  cm: the config map.
nodeupdateReconcile(n, c, cm, F) ==
    LET g == GetNode(n, "GetNode" \in F)
        c1 == <<Call("GetNode", "", NodeName)>>
        v == GetConfigMapValue(cm)
        c2 == Append(c1, Call("GetConfigMapValue", "openshift-config", "cloud-provider-config"))
        infraClusterNamespace == v.cMap.namespace.val
        e == GetVirtualMachine(c.vm, "GetVirtualMachine" \in F)
        c3 == Append(c2, Call("GetVirtualMachine", infraClusterNamespace, g.node.name))
        d == DeleteNode(n, "DeleteNode" \in F)
        c4 == Append(c3, Call("DeleteNode", "", NodeName))
        withID == [g.node EXCEPT !.providerID = FormatProviderID(infraClusterNamespace, g.node.name)]
        u == UpdateNode(n, withID, "UpdateNode" \in F)
        c5 == Append(c3, Call("UpdateNode", "", NodeName))
    IN  IF g.err # NoErr
        THEN IF IsNotFound(g.err)
             THEN Reconciled(n, Result(FALSE, 0), NoErr, c1, "none")
             ELSE Reconciled(n, Result(FALSE, 0), Errorf(<<"error getting node">> \o g.err.msg), c1, "none")
        ELSE IF v.err # NoErr
        THEN Reconciled(n, Result(FALSE, 0), v.err, c2, "none")
        ELSE IF ~v.cMap.namespace.has
        THEN Reconciled(n, Result(FALSE, 0),
                        Errorf(<<"ProviderID: configMap", "doesn't contain key", "namespace">>), c2, "none")
        ELSE IF e.err # NoErr
        THEN IF IsNotFound(e.err)
             THEN IF d.err # NoErr
                  THEN Reconciled(d.stored, Result(FALSE, 0),
                                  Errorf(<<NodeName, "Error deleting Node">> \o d.err.msg),
                                  c4, "NotFound")
                  ELSE Reconciled(d.stored, Result(FALSE, 0), NoErr, c4, "NotFound")
             ELSE Reconciled(n, Result(FALSE, 0),
                             Errorf(<<NodeName, "Error getting Virtual Machine">> \o e.err.msg),
                             c3, "error")
        ELSE IF ~e.vm.ready
        THEN Reconciled(n, Result(TRUE, requeueDurationWhenVMNotReady), NoErr, c3, "found")
        ELSE IF hasProviderID(g.node)
        THEN Reconciled(n, Result(FALSE, 0), NoErr, c3, "found")
        ELSE IF u.err # NoErr
        THEN Reconciled(u.stored, Result(FALSE, 0),
                        Errorf(<<NodeName, "failed updating node">> \o u.err.msg), c5, "found")
        ELSE Reconciled(u.stored, Result(FALSE, 0), NoErr, c5, "found")

\* providerid: providerIDReconciler.getVMName: [id, err, calls]
getVMName(c, nodeName, F) ==
    LET ns == GetNamespace("GetNamespace" \in F)
        c1 == <<Call("GetNamespace", "", "")>>
        i == GetVirtualMachineInstance(c.vmi, "GetVirtualMachineInstance" \in F)
        c2 == Append(c1, Call("GetVirtualMachineInstance", ns.namespace, nodeName))
    IN  IF ns.err # NoErr THEN [id |-> "", err |-> ns.err, calls |-> c1]
        ELSE IF i.err # NoErr THEN [id |-> "", err |-> i.err, calls |-> c2]
        ELSE [id |-> i.name, err |-> NoErr, calls |-> c2]

\* providerid: providerIDReconciler.Reconcile.  The second GetNamespace of the
\* reconcile fails on its own ("GetNamespaceAgain"); with a provider id on the
\* Node its error is dropped and the VM is looked up in the namespace "",
\* which the infra cluster rejects.
provideridReconcile(n, c, F) ==
    LET g == GetNode(n, "GetNode" \in F)
        c1 == <<Call("GetNode", "", NodeName)>>
        id == getVMName(c, g.node.name, F)
        c2 == c1 \o id.calls
        d == DeleteNode(n, "DeleteNode" \in F)
        c3 == Append(c2, Call("DeleteNode", "", NodeName))
        ns == GetNamespace("GetNamespaceAgain" \in F)
        c4 == Append(c2, Call("GetNamespaceAgain", "", ""))
        e == IF ns.err # NoErr
             THEN GetVirtualMachine(c.vm, TRUE)
             ELSE GetVirtualMachine(c.vm, "GetVirtualMachine" \in F)
        c5 == Append(c4, Call("GetVirtualMachine", ns.namespace, id.id))
        withID == [g.node EXCEPT !.providerID = ProvideridFormatProviderID(ns.namespace, id.id)]
        u == UpdateNode(n, withID, "UpdateNode" \in F)
        c6 == Append(c4, Call("UpdateNode", "", NodeName))
    IN  IF g.err # NoErr
        THEN IF IsNotFound(g.err)
             THEN Reconciled(n, Result(FALSE, 0), NoErr, c1, "none")
             ELSE Reconciled(n, Result(FALSE, 0), Errorf(<<"error getting node">> \o g.err.msg), c1, "none")
        ELSE IF id.id = ""
        THEN IF d.err # NoErr
             THEN Reconciled(d.stored, Result(FALSE, 0),
                             Errorf(<<"Error deleting node", NodeName>> \o d.err.msg),
                             c3, LookupOf(id.err))
             ELSE Reconciled(d.stored, Result(FALSE, 0), NoErr, c3, LookupOf(id.err))
        ELSE IF hasProviderID(g.node)
        THEN IF e.err # NoErr
             THEN Reconciled(n, Result(FALSE, 0), Errorf(<<"failed getting VM">> \o e.err.msg),
                             c5, LookupOf(e.err))
             ELSE IF ~e.vm.ready
             THEN Reconciled(n, Result(TRUE, RETRY_INTERVAL_VM_NOTREADY), NoErr, c5, "found")
             ELSE Reconciled(n, Result(FALSE, 0), NoErr, c5, "found")
        ELSE IF ns.err # NoErr
        THEN Reconciled(n, Result(FALSE, 0), ns.err, c4, "found")
        ELSE IF u.err # NoErr
        THEN Reconciled(u.stored, Result(FALSE, 0),
                        Errorf(<<"failed updating node", NodeName>> \o u.err.msg), c6, "found")
        ELSE Reconciled(u.stored, Result(FALSE, 0), NoErr, c6, "found")

\* Provider ids a Node may come with: none, the one of its VM, one set by
\* something else.
NodeProviderIDs ==
    {<<>>, FormatProviderID(InfraNamespace, NodeName), <<"kubevirt://", "elsewhere", "/", NodeName>>}

NodeConfigMaps ==
    {ConfigMap("ok", [has |-> TRUE, val |-> InfraID], [has |-> TRUE, val |-> InfraNamespace]),
     ConfigMap("ok", [has |-> TRUE, val |-> InfraID], NoKey),
     ConfigMap("NotFound", NoKey, NoKey)}

NoResult == Result(FALSE, 0)

InitNode ==
    /\ now = 0
    /\ machine = NewMachine(NilStr)
    /\ node \in {NoObject} \cup {Node(pid) : pid \in NodeProviderIDs}
    /\ vm \in {NoVM, StoredVM(CreateVirtualMachineFromMachine(NewMachine(NilStr), ValidSpec).vm)}
    /\ vmi = FALSE
    /\ secret = NoObject
    /\ last = Idle

\* What a reconcile r, run under the name op with calls F failing, leaves;
\* configured: the config map was read and holds the infra namespace.
LeaveNode(op, r, F, configured) ==
    /\ F \subseteq CallNames(r.calls)
    /\ node' = r.node
    /\ last' = [result |-> r.result, configured |-> configured] @@
                    [Idle EXCEPT !.op = op, !.invoked = TRUE, !.lookup = r.lookup,
                                 !.err = r.err, !.calls = r.calls,
                                 !.in = Input(ValidSpec, "ok", F)]
    /\ UNCHANGED <<now, machine, vm, vmi, secret>>

NodeupdateReconcile ==
    \E cm \in NodeConfigMaps,
       F \in {G \in SUBSET {"GetNode", "GetVirtualMachine", "DeleteNode", "UpdateNode"} :
                Cardinality(G) <= MaxFaults} :
        /\ Cardinality(F) + (IF cm.read = "ok" /\ cm.cMap.namespace.has THEN 0 ELSE 1) <= MaxFaults
        /\ LeaveNode("nodeupdate.Reconcile", nodeupdateReconcile(node, Cluster, cm, F), F,
                     cm.read = "ok" /\ cm.cMap.namespace.has)

ProvideridReconcile ==
    \E F \in {G \in SUBSET {"GetNode", "GetNamespace", "GetVirtualMachineInstance",
                              "GetNamespaceAgain", "GetVirtualMachine", "DeleteNode",
                              "UpdateNode"} :
                Cardinality(G) <= MaxFaults} :
        LeaveNode("providerid.Reconcile", provideridReconcile(node, Cluster, F), F, TRUE)

\* A Node registers under the VM's name.
NodeJoins ==
    /\ node.isNil
    /\ \E pid \in NodeProviderIDs : node' = Node(pid)
    /\ last' = Idle
    /\ UNCHANGED <<now, machine, vm, vmi, secret>>

\* The VM is created in the infra cluster.
InfraCreateVM ==
    /\ vm.isNil
    /\ vm' = StoredVM(CreateVirtualMachineFromMachine(NewMachine(NilStr), ValidSpec).vm)
    /\ last' = Idle
    /\ UNCHANGED <<now, node, machine, vmi, secret>>

NextNode ==
    \/ NodeupdateReconcile
    \/ ProvideridReconcile
    \/ NodeJoins
    \/ InfraCreateVM
    \/ InfraStatus
    \/ InfraInstance
    \/ InfraRemoveVM

NodeSpec == InitNode /\ [][NextNode]_vars

----------------------------------------------------------------------------
(* Two machines reconciled by the same actuator.  The operations are those *)
(* of one machine, applied to the infra-cluster objects at the machine's   *)
(* key; vm, vmi and secret map keys, machine maps machines, to the objects. *)

\* Machines of the tenant cluster, by namespace and name.
Machines ==
    {[namespace |-> "test-machine-namespace", name |-> MachineName],
     [namespace |-> "test-machine-namespace", name |-> "other-machine-name"],
     [namespace |-> "other-machine-namespace", name |-> MachineName]}

\* Where the objects derived for a machine live in the infra cluster: the VM
\* and its instance under the machine's name, the ignition secret under a name
\* built from it, all in the infra namespace.
KeyOf(id) == <<InfraNamespace, id.name>>

NoTarget == [namespace |-> "", name |-> ""]

InitFleet ==
    /\ now = 0
    /\ node = NoObject
    /\ \E fleet \in {f \in SUBSET Machines : Cardinality(f) = 2} :
          /\ machine = [id \in fleet |-> NewMachine(NilStr)]
          /\ vm = [k \in {KeyOf(id) : id \in fleet} |-> NoVM]
          /\ vmi = [k \in {KeyOf(id) : id \in fleet} |-> FALSE]
          /\ secret = [k \in {KeyOf(id) : id \in fleet} |-> NoObject]
    /\ last = [target |-> NoTarget] @@ Idle

ClusterAt(k) == [vm |-> vm[k], vmi |-> vmi[k], secret |-> secret[k]]

\* The operation's outcome o put back at the machine's key.
LeaveAt(id, o) ==
    /\ vm' = [vm EXCEPT ![KeyOf(id)] = o.vm]
    /\ vmi' = [vmi EXCEPT ![KeyOf(id)] = o.vmi]
    /\ secret' = [secret EXCEPT ![KeyOf(id)] = o.secret]
    /\ machine' = [machine EXCEPT ![id] = o.machine]
    /\ last' = [target |-> id] @@ o.last
    /\ UNCHANGED <<now, node>>

FleetCreate ==
    \E id \in DOMAIN machine :
        LeaveAt(id, actuatorCreate(ClusterAt(KeyOf(id)), machine[id], NoInput, FALSE))

FleetExists ==
    \E id \in DOMAIN machine :
        LeaveAt(id, actuatorExists(ClusterAt(KeyOf(id)), machine[id], NoInput))

FleetUpdate ==
    \E id \in DOMAIN machine :
        LeaveAt(id, actuatorUpdate(ClusterAt(KeyOf(id)), machine[id], NoInput))

FleetDelete ==
    \E id \in DOMAIN machine :
        LeaveAt(id, actuatorDelete(ClusterAt(KeyOf(id)), machine[id], NoInput))

\* The runtime instance of a VM starts or goes away.
FleetInstance ==
    \E k \in DOMAIN vm :
        /\ vmi' = [vmi EXCEPT ![k] = ~@]
        /\ vmi'[k] => ~vm[k].isNil
        /\ last' = [target |-> NoTarget] @@ Idle
        /\ UNCHANGED <<now, node, machine, vm, secret>>

\* A VM leaves the infra cluster with its runtime instance.
FleetRemoveVM ==
    \E k \in DOMAIN vm :
        /\ ~vm[k].isNil
        /\ vm' = [vm EXCEPT ![k] = NoVM]
        /\ vmi' = [vmi EXCEPT ![k] = FALSE]
        /\ last' = [target |-> NoTarget] @@ Idle
        /\ UNCHANGED <<now, node, machine, secret>>

NextFleet ==
    \/ FleetCreate
    \/ FleetExists
    \/ FleetUpdate
    \/ FleetDelete
    \/ FleetInstance
    \/ FleetRemoveVM

FleetSpec == InitFleet /\ [][NextFleet]_vars

----------------------------------------------------------------------------
(* The hostname file added to bootstrap payloads.                          *)

MaxFiles == 2

\* File entries a payload may carry already.
FileEntries ==
    {[filesystem |-> "root", path |-> "/etc/motd", mode |-> 420,
      contents |-> [source |-> <<"data:,", "hello">>]],
     [filesystem |-> "root", path |-> "/etc/hostname", mode |-> 384,
      contents |-> [source |-> <<"data:,", "localhost">>]]}

FileLists == UNION {[1..n -> FileEntries] : n \in 0..MaxFiles}

\* Bootstrap payloads that are JSON objects: with or without a "storage" key,
\* and in it with or without a "files" list.
UserDatas ==
    {[ignition |-> v, passwd |-> p, storage |-> st] :
        v \in {"3.1.0", "2.2.0"},
        p \in {NoKey, [has |-> TRUE, users |-> "core"]},
        st \in {NoKey} \cup
               {[has |-> TRUE, disks |-> d, files |-> f] :
                   d \in {NoKey, [has |-> TRUE, device |-> "/dev/vda"]},
                   f \in {NoKey} \cup {[has |-> TRUE, list |-> l] : l \in FileLists}}}

\* addHostnameToUserData is called with some payload and the machine's name.
AddHostname ==
    \E src \in UserDatas :
        /\ last' = [Idle EXCEPT !.op = "addHostnameToUserData", !.invoked = TRUE,
                                !.mem = machine,
                                !.calls = <<CallWith("addHostnameToUserData", InfraNamespace,
                                                     MachineName, src,
                                                     addHostnameToUserData(src, MachineName))>>]
        /\ UNCHANGED <<now, node, machine, vm, vmi, secret>>

UserDataSpec == InitScope /\ [][AddHostname]_vars

----------------------------------------------------------------------------
(* Properties *)

Operations == {"Create", "Exists", "Update", "Delete"}

ActionOf(op) ==
    CASE op = "Create" -> createEventAction
      [] op = "Update" -> updateEventAction
      [] op = "Delete" -> deleteEventAction
      [] OTHER -> existsEventAction

\* The last step was a manager operation whose lookup of the backing VM was
\* answered "not found" by the infra cluster.
UpdateLookupNotFound == last.op = "Update" /\ last.invoked /\ last.lookup = "NotFound"

IsRequeueAfter(err) == err.kind = "RequeueAfterError"

\* C1: when the manager's Update looks up the backing VM and the infra cluster
\* reports it not found, Update returns a requeue-after signal and issues no
\* UpdateVirtualMachine call.
C1_NotFoundRequeues ==
    UpdateLookupNotFound =>
        /\ IsRequeueAfter(last.mgrErr)
        /\ "UpdateVirtualMachine" \notin CallNames(last.calls)

\* The gate was asked, or the update step of package vm ran, on a machine
\* and at a time the observation records.
GateAsked == last.op = "UpdateAllowed"

Unsynced(m) == m.providerID.nil \/ m.providerID.str = <<>>

Elapsed == last.at - last.mem.lastUpdated

\* C2: in the VM-not-found branch of the update step the requeue delay follows
\* the update-allowed gate asked with 20 seconds: 20 seconds exactly when the
\* gate allows, 180 seconds exactly when it denies.
C2_NotFoundDelayFollowsGate ==
    (last.op = "vm.updateVM" /\ last.lookup = "NotFound") =>
        /\ IsRequeueAfter(last.mgrErr)
        /\ last.gate \in {"allowed", "denied"}
        /\ (last.mgrErr.after = requeueAfterSeconds) = (last.gate = "allowed")
        /\ (last.mgrErr.after = requeueAfterFatalSeconds) = (last.gate = "denied")

\* C3 as stated: UpdateAllowed returns true for every machine whose provider
\* id is nil or empty, whatever its timestamp and the interval.
C3_UnsyncedAlwaysAllowed ==
    (GateAsked /\ Unsynced(last.mem)) => last.gate = "allowed"

\* C3 as the code has it: UpdateAllowed returns false for every machine whose
\* provider id is nil or empty, whatever its timestamp and the interval.
C3_UnsyncedNeverAllowed ==
    (GateAsked /\ Unsynced(last.mem)) => last.gate = "denied"

\* The gate was asked with a positive interval on a machine without provider
\* id that carries a timestamp.
C3_Witness ==
    /\ GateAsked
    /\ last.mem.providerID.nil
    /\ ~LastUpdatedIsNil(last.mem)
    /\ last.interval = requeueAfterFatalSeconds
    /\ last.gate = "denied"

\* C4: UpdateAllowed returns false whenever the provider id is nil or empty,
\* and true when the provider id is set and non-empty and no last-updated
\* timestamp is recorded.
C4_AsTestUpdateAllowed ==
    GateAsked =>
        /\ Unsynced(last.mem) => last.gate = "denied"
        /\ (~Unsynced(last.mem) /\ LastUpdatedIsNil(last.mem)) => last.gate = "allowed"

\* The gate allowed a machine with a provider id and no timestamp, late on
\* the clock.
C4_Witness ==
    /\ GateAsked
    /\ last.mem.providerID = Str(<<"kubevirt">>)
    /\ LastUpdatedIsNil(last.mem)
    /\ last.at > requeueAfterFatalSeconds
    /\ last.interval = requeueAfterSeconds
    /\ last.gate = "allowed"

\* A machine with a provider id and a recorded timestamp was asked about.
GateTimed == GateAsked /\ ~Unsynced(last.mem) /\ ~LastUpdatedIsNil(last.mem)

\* C5 as stated: with provider id and timestamp set, UpdateAllowed(interval)
\* returns true when the elapsed time exceeds the interval and false when it
\* is less than the interval.
C5_AllowedOnceElapsed ==
    GateTimed =>
        /\ Elapsed > last.interval => last.gate = "allowed"
        /\ Elapsed < last.interval => last.gate = "denied"

\* C5 as the code has it: with provider id and timestamp set,
\* UpdateAllowed(interval) returns true when the elapsed time is less than
\* the interval and false once it has reached the interval.
C5_AllowedUntilElapsed ==
    GateTimed =>
        /\ Elapsed < last.interval => last.gate = "allowed"
        /\ Elapsed >= last.interval => last.gate = "denied"

\* The gate denied a machine stamped more than the interval ago.
C5_Witness ==
    /\ GateTimed
    /\ last.mem.lastUpdated > 0
    /\ last.interval = requeueAfterSeconds
    /\ Elapsed > last.interval
    /\ last.gate = "denied"

\* A second invocation of the operation follows a successful first one at
\* once, with the same inputs and no call failing in transit.
Repeated(op) ==
    /\ last.op = op /\ last.invoked /\ last.err = NoErr /\ last.in.faults = {}
    /\ last'.op = op /\ last'.in = last.in

Resources(v, i, sec) ==
    [vm |-> ~v.isNil, deleting |-> IF v.isNil THEN FALSE ELSE v.deleting,
     vmi |-> i, secret |-> ~sec.isNil]

\* C6: each of Create, Update, Delete and Exists, invoked a second time with
\* no external change in between, succeeds whenever the first invocation
\* succeeded and leaves the infra cluster holding the same resources.
C6_Idempotent ==
    [][\A op \in Operations :
          Repeated(op) =>
              /\ last'.err = NoErr
              /\ Resources(vm', vmi', secret') = Resources(vm, vmi, secret)]_vars

\* The last step was an Actuator Create or Update that invoked the manager.
Persisting == last.op \in {"Create", "Update"} /\ last.invoked

CallAt(i) == IF i \in 1..Len(last.calls) THEN last.calls[i].call ELSE "none"

SpecPart(m) == <<m.providerID, m.vmId, m.instanceState, m.instanceType>>

\* C7: in Actuator Create and Update, once the manager was invoked the machine
\* is persisted whether the manager succeeded or failed: the spec patch is
\* issued, the status patch follows it when the spec patch went through, and
\* the stored machine then holds every field the operation wrote in memory.
C7_PersistedWhateverManager ==
    Persisting =>
        LET n == Len(last.calls)
        IN  IF "PatchMachine" \in last.in.faults
            THEN CallAt(n) = "PatchMachine"
            ELSE /\ CallAt(n - 1) = "PatchMachine"
                 /\ CallAt(n) = "StatusPatchMachine"
                 /\ SpecPart(machine) = SpecPart(last.mem)
                 /\ "StatusPatchMachine" \notin last.in.faults => machine = last.mem

\* A Create failed in the sync after the provider id was written on the
\* machine, and the stored machine carries that provider id.
C7_Witness ==
    /\ last.op = "Create" /\ last.invoked
    /\ last.in.faults = {"Marshal"}
    /\ last.mgrErr # NoErr
    /\ last.mem.providerID = Str(FormatProviderID(InfraNamespace, MachineName))
    /\ machine = last.mem
    /\ ~machine.providerStatus.set

\* C8: in Actuator Create and Update, when both the manager operation and the
\* persist step fail, the error reported is the manager's, not the persist
\* step's.
C8_ManagerErrorWins ==
    (Persisting /\ last.mgrErr # NoErr /\ last.patchErr # NoErr) =>
        last.err \in {last.mgrErr, handleMachineError(ActionOf(last.op), last.mgrErr).err}

\* C9: for each of the four Actuator operations, whenever the manager returns
\* an error a warning notification is raised and no normal one.
C9_WarningOnManagerError ==
    (last.op \in Operations /\ last.invoked /\ last.mgrErr # NoErr) =>
        /\ \E i \in 1..Len(last.events) : last.events[i].type = EventTypeWarning
        /\ \A i \in 1..Len(last.events) : last.events[i].type # EventTypeNormal

\* C10: the error the Actuator returns is the error the manager produced,
\* unchanged.
C10_ManagerErrorUnchanged ==
    (last.op \in Operations /\ last.invoked /\ last.mgrErr # NoErr /\ last.patchErr = NoErr) =>
        last.err = last.mgrErr

\* The lookup and the update call of the last Update, in the order issued.
Updated ==
    /\ last.op = "Update" /\ last.invoked
    /\ Len(last.calls) >= 2
    /\ last.calls[1].call = "GetVirtualMachine"
    /\ last.calls[2].call = "UpdateVirtualMachine"

Fetched == last.calls[1].ret

Sent == last.calls[2].arg

Returned == last.calls[2].ret

\* C11: on a successful Update, wasUpdated is true exactly when the version
\* token of the VM the update call returned differs from the token of the VM
\* fetched just before, and false exactly when the two are equal.
C11_WasUpdatedIffTokenDiffers ==
    (last.op = "Update" /\ last.invoked /\ last.mgrErr = NoErr) =>
        /\ Updated
        /\ last.wasUpdated = (Returned.rv # Fetched.rv)

\* A successful Update whose update call handed back the token it was sent:
\* nothing was reported as updated.
C11_Witness ==
    /\ Updated
    /\ last.mgrErr = NoErr
    /\ Returned.rv = Fetched.rv
    /\ ~last.wasUpdated

\* A successful Update whose update call handed back a new token.
C11_WitnessChanged ==
    /\ Updated
    /\ last.mgrErr = NoErr
    /\ Returned.rv # Fetched.rv
    /\ last.wasUpdated

\* The last step was an Actuator operation that returned no error.
Succeeded(op) == last.op = op /\ last.invoked /\ last.err = NoErr

\* C12: on success the Actuator raises exactly one normal notification for
\* every Create and every Delete, and for an Update one exactly when
\* wasUpdated is true and none when it is false.
C12_NormalNotifications ==
    /\ Succeeded("Create") => last.events = <<Event(EventTypeNormal, createEventAction)>>
    /\ Succeeded("Delete") => last.events = <<Event(EventTypeNormal, deleteEventAction)>>
    /\ Succeeded("Update") =>
          last.events = IF last.wasUpdated
                        THEN <<Event(EventTypeNormal, updateEventAction)>>
                        ELSE <<>>

\* An Update succeeded without changing the VM and raised nothing.
C12_Witness ==
    /\ Succeeded("Update")
    /\ Updated
    /\ ~last.wasUpdated
    /\ last.events = <<>>

\* The step is an Update that issues an UpdateVirtualMachine call.
UpdateCallIssued ==
    /\ last'.op = "Update"
    /\ "UpdateVirtualMachine" \in CallNames(last'.calls)

CleanStep(op) ==
    /\ last'.op = op /\ last'.invoked
    /\ last'.in.ps = ValidSpec
    /\ last'.in.faults = {}

\* C14: Delete of a machine whose backing VM is absent returns no error and
\* issues no DeleteVirtualMachine call.
C14_DeleteAbsentSucceeds ==
    [][(CleanStep("Delete") /\ vm.isNil) =>
          /\ last'.lookup = "NotFound"
          /\ last'.mgrErr = NoErr
          /\ last'.err = NoErr
          /\ CallNames(last'.calls) = {"GetVirtualMachine"}
          /\ vm'.isNil]_vars

\* A machine that was synced with its VM is deleted after the VM is gone.
C14_Witness ==
    /\ last.op = "Delete" /\ last.invoked
    /\ last.lookup = "NotFound"
    /\ last.err = NoErr
    /\ vm.isNil
    /\ machine.providerID = Str(FormatProviderID(InfraNamespace, MachineName))

DeleteCalls ==
    SelectSeq(last.calls, LAMBDA c : c.call = "DeleteVirtualMachine")

\* C15: Delete of a machine whose backing VM is found issues one delete
\* request for that VM's (namespace, name) whose grace period of 10 seconds
\* reaches the infra cluster; a lookup error other than not-found, or a
\* failing delete request, makes Delete return an error.
C15_DeleteWithGracePeriod ==
    (last.op = "Delete" /\ last.invoked) =>
        /\ (last.lookup = "found" /\ last.mgrErr = NoErr) =>
              /\ Len(DeleteCalls) = 1
              /\ DeleteCalls[1].namespace = InfraNamespace
              /\ DeleteCalls[1].name = MachineName
              /\ DeleteCalls[1].arg = DeleteOptions(gracePeriod)
              /\ ~vm.isNil /\ vm.deleting
              /\ vm.deleteOptions = DeleteOptions(gracePeriod)
        /\ last.lookup = "error" => last.mgrErr # NoErr
        /\ "DeleteVirtualMachine" \in last.in.faults => last.mgrErr # NoErr

\* C16: Exists returns (false, no error) when the lookup of the backing VM
\* reports not-found, (true, no error) when the VM is found, and an error for
\* any other lookup failure; it never changes the infra cluster.
C16_ExistsReportsLookup ==
    [][last'.op = "Exists" =>
          /\ <<vm', vmi', secret'>> = <<vm, vmi, secret>>
          /\ IF "GetVirtualMachine" \in last'.in.faults
             THEN last'.err # NoErr
             ELSE /\ last'.err = NoErr
                  /\ last'.exists = ~vm.isNil
                  /\ last'.lookup = IF vm.isNil THEN "NotFound" ELSE "found"]_vars

\* Exists answered false, without error, for a machine whose VM is gone
\* while its ignition secret is still there.
C16_Witness ==
    /\ last.op = "Exists"
    /\ last.lookup = "NotFound"
    /\ ~last.exists
    /\ last.err = NoErr
    /\ vm.isNil /\ ~secret.isNil

\* The calls the manager's Create made on the infra cluster, by name.
CreateSteps(calls) ==
    LET made == SelectSeq(calls, LAMBDA c : c.call \in {"CreateSecret", "CreateVirtualMachine",
                                                        "GetVirtualMachineInstance"})
    IN  [i \in 1..Len(made) |-> made[i].call]

CreateOrder == <<"CreateSecret", "CreateVirtualMachine", "GetVirtualMachineInstance">>

Synced(m) == m.providerID = Str(FormatProviderID(InfraNamespace, MachineName))

\* C17: Create performs its steps in the order create ignition secret,
\* derive and create VM, fetch runtime instance, sync machine, and stops at
\* the first failing step: no later step runs, so no VM is created in a
\* Create whose secret creation failed.
C17_CreateStepsInOrder ==
    [][(last'.op = "Create" /\ last'.invoked) =>
          LET steps == CreateSteps(last'.calls)
              F == last'.in.faults
              secretFailed == "CreateSecret" \in F \/ ~secret.isNil
              deriveFailed == assertMandatoryParams(last'.in.ps) # NoErr
              createFailed == "CreateVirtualMachine" \in F \/ ~vm.isNil
              fetchFailed == "GetVirtualMachineInstance" \in F \/ ~vmi'
          IN  /\ Len(steps) \in 1..3
              /\ \A i \in 1..Len(steps) : steps[i] = CreateOrder[i]
              /\ secretFailed =>
                    /\ steps = <<"CreateSecret">>
                    /\ <<vm', secret'>> = <<vm, secret>>
              /\ (secretFailed \/ deriveFailed) => steps = <<"CreateSecret">> /\ vm' = vm
              /\ (secretFailed \/ deriveFailed \/ createFailed) => Len(steps) <= 2 /\ vm' = vm
              /\ (secretFailed \/ deriveFailed \/ createFailed \/ fetchFailed) =>
                    /\ last'.mgrErr # NoErr
                    /\ last'.mem = machine
              /\ ~(secretFailed \/ deriveFailed \/ createFailed \/ fetchFailed) =>
                    /\ Len(steps) = 3
                    /\ ~vm'.isNil /\ ~secret'.isNil
                    /\ Synced(last'.mem)]_vars

\* A Create stopped at a secret that could not be created in transit, and
\* left the infra cluster without VM.
C17_Witness ==
    /\ last.op = "Create" /\ last.invoked
    /\ last.in.faults = {"CreateSecret"}
    /\ CreateSteps(last.calls) = <<"CreateSecret">>
    /\ last.mgrErr # NoErr
    /\ vm.isNil /\ secret.isNil

VMCalls ==
    SelectSeq(last.calls, LAMBDA c : c.call \in {"GetVirtualMachine", "CreateVirtualMachine",
                                                  "UpdateVirtualMachine", "DeleteVirtualMachine"})

\* C18: Create, Update, Delete and Exists all address the backing VM at the
\* key (infra namespace, machine name): every call that reads, creates,
\* updates or deletes a VM names that key, and so does the VM the infra
\* cluster holds.
C18_SameVMKey ==
    /\ last.op \in Operations =>
          \A i \in 1..Len(VMCalls) :
              /\ VMCalls[i].namespace = InfraNamespace
              /\ VMCalls[i].name = MachineName
    /\ ~vm.isNil => vm.namespace = InfraNamespace /\ vm.name = MachineName

\* A Delete looked the VM up and deleted it under the key Create gave it.
C18_Witness ==
    /\ last.op = "Delete"
    /\ Len(VMCalls) = 2
    /\ VMCalls[2].call = "DeleteVirtualMachine"
    /\ VMCalls[2].namespace = vm.namespace
    /\ VMCalls[2].name = vm.name
    /\ vm.deleting

\* C19: with the provider configuration unchanged, a status sync performed
\* on the machine between two derivations does not change the derived VM: an
\* Update that follows an Update which synced the machine submits the same
\* desired spec.
C19_SyncKeepsDerivedVM ==
    [][(/\ Updated /\ last.mgrErr = NoErr /\ last.patchErr = NoErr
        /\ Updated' /\ last'.in.ps = last.in.ps) =>
          Sent'.spec = Sent.spec]_vars

\* The last Update derived the VM and had its update call refused: nothing
\* but the derivation and the two infra calls touched the machine scope.
DerivedOnly ==
    /\ Updated
    /\ "UpdateVirtualMachine" \in last.in.faults

UpdateSynced ==
    /\ Updated
    /\ IF last.mgrErr = NoErr THEN TRUE
       ELSE /\ Len(last.mgrErr.msg) >= 4
            /\ last.mgrErr.msg[4] = "failed to sync the Machine"

\* C21: the status sync sets the machine's instance state to one of three
\* states fixed by the observed VM's {created, ready} pair alone: vmNotCreated
\* when created is false, whatever ready is, vmCreatedNotReady when created is
\* true and ready false, vmCreatedAndReady when both are true.
C21_InstanceStateOfPair ==
    UpdateSynced =>
        /\ last.mem.instanceState \in {vmNotCreated, vmCreatedNotReady, vmCreatedAndReady}
        /\ ~Returned.created => last.mem.instanceState = vmNotCreated
        /\ (Returned.created /\ ~Returned.ready) => last.mem.instanceState = vmCreatedNotReady
        /\ (Returned.created /\ Returned.ready) => last.mem.instanceState = vmCreatedAndReady

\* A sync that observed a VM reported ready but not created.
C21_Witness ==
    /\ UpdateSynced
    /\ ~Returned.created /\ Returned.ready
    /\ last.mem.instanceState = vmNotCreated

\* The provider id of the VM the step leaves in the infra cluster.
BackingProviderID == <<"kubevirt://", vm'.namespace, "/", vm'.name>>

\* C22: after every successful status sync in Create or Update the machine's
\* provider id is "kubevirt://<infra namespace>/<machine name>" of its backing
\* VM, and the sync assigns the provider id exactly when the machine's current
\* value, a missing one included, is not that string.
C22_ProviderIDSynced ==
    [][(last'.op \in {"Create", "Update"} /\ last'.invoked /\ last'.mgrErr = NoErr) =>
          /\ vm'.namespace = InfraNamespace /\ vm'.name = MachineName
          /\ last'.mem.providerID = [nil |-> FALSE, str |-> BackingProviderID]
          /\ existingProviderIDDiffers(machine, BackingProviderID)
                <=> machine.providerID # [nil |-> FALSE, str |-> BackingProviderID]]_vars

\* A successful Update whose sync found the provider id in place, stored by an
\* earlier sync, and left it there.
C22_Witness ==
    /\ Updated /\ last.mgrErr = NoErr /\ last.patchErr = NoErr
    /\ ~last.wasUpdated
    /\ last.mem.providerID = Str(<<"kubevirt://", InfraNamespace, "/", MachineName>>)
    /\ machine.providerID = last.mem.providerID
    /\ ~existingProviderIDDiffers(machine, <<"kubevirt://", vm.namespace, "/", vm.name>>)

\* The last step derived the VM from a machine scope.
Derived == last.op = "CreateVirtualMachineFromMachine"

DerivedVM == last.calls[1].ret

\* The error naming a mandatory field as missing.
MissingValue(field) ==
    [kind |-> "MachineError", after |-> 0,
     msg |-> <<MachineName, "missing value for " \o field>>]

\* C23: with a valid access mode, deriving the VM fails with a configuration
\* error, and returns no VM, exactly when at least one of source-volume name,
\* ignition-secret name and network name is empty; the error names the first
\* empty field in the order source-volume, ignition-secret, network, so that
\* each field alone being empty yields the error naming that field.
C23_MandatoryParams ==
    (Derived /\ last.in.ps.PersistentVolumeAccessMode
                    \in {"", "ReadWriteMany", "ReadOnlyMany", "ReadWriteOnce"}) =>
        LET ps == last.in.ps
            empty == ps.SourcePvcName = "" \/ ps.IgnitionSecretName = "" \/ ps.NetworkName = ""
        IN  /\ (last.err # NoErr) <=> empty
            /\ DerivedVM.isNil <=> empty
            /\ ps.SourcePvcName = "" => last.err = MissingValue("SourcePvcName")
            /\ (ps.SourcePvcName # "" /\ ps.IgnitionSecretName = "") =>
                    last.err = MissingValue("IgnitionSecretName")
            /\ (ps.SourcePvcName # "" /\ ps.IgnitionSecretName # "" /\ ps.NetworkName = "") =>
                    last.err = MissingValue("NetworkName")

\* A derivation refused for the source-volume name, the ignition-secret name
\* being empty as well.
C23_Witness ==
    /\ Derived
    /\ last.in.ps.SourcePvcName = "" /\ last.in.ps.IgnitionSecretName = ""
    /\ last.in.ps.NetworkName # ""
    /\ last.in.ps.PersistentVolumeAccessMode = "ReadOnlyMany"
    /\ last.err = MissingValue("SourcePvcName")
    /\ DerivedVM.isNil

\* The three mandatory names are present in the scope's configuration.
MandatoryPresent ==
    /\ last.in.ps.SourcePvcName # ""
    /\ last.in.ps.IgnitionSecretName # ""
    /\ last.in.ps.NetworkName # ""

\* C24: with the mandatory names present, the derived VM's boot volume has
\* access mode ReadWriteMany when none is configured and the configured mode,
\* unchanged, when it is one of ReadWriteMany, ReadOnlyMany, ReadWriteOnce; any
\* other configured value fails with a configuration error that lists exactly
\* those three values, and no VM is returned.
C24_AccessMode ==
    (Derived /\ MandatoryPresent) =>
        LET mode == last.in.ps.PersistentVolumeAccessMode
        IN  /\ mode = "" =>
                  /\ last.err = NoErr
                  /\ DerivedVM.accessMode = "ReadWriteMany"
            /\ mode \in {"ReadWriteMany", "ReadOnlyMany", "ReadWriteOnce"} =>
                  /\ last.err = NoErr
                  /\ DerivedVM.accessMode = mode
            /\ mode \notin {"", "ReadWriteMany", "ReadOnlyMany", "ReadWriteOnce"} =>
                  /\ DerivedVM.isNil
                  /\ last.err.kind = "MachineError"
                  /\ last.err.msg =
                        <<MachineName, "Value of PersistentVolumeAccessMode, can be only one of",
                          "ReadWriteMany", "ReadOnlyMany", "ReadWriteOnce">>

\* A derivation refused for an access mode spelled in lower case.
C24_Witness ==
    /\ Derived /\ MandatoryPresent
    /\ last.in.ps.PersistentVolumeAccessMode = "readwritemany"
    /\ DerivedVM.isNil
    /\ last.err.kind = "MachineError"
    /\ Len(last.err.msg) = 5

\* A derivation with no access mode configured.
C24_WitnessDefault ==
    /\ Derived /\ MandatoryPresent
    /\ last.in.ps.PersistentVolumeAccessMode = ""
    /\ DerivedVM.accessMode = "ReadWriteMany"

HostnameAdded == last.op = "addHostnameToUserData"

SrcUserData == last.calls[1].arg

FullUserData == last.calls[1].ret

\* The file entries of a payload; none when it has no "storage" key or no
\* "files" list in it.
FilesOf(payload) ==
    IF payload.storage.has
    THEN IF payload.storage.files.has THEN payload.storage.files.list ELSE <<>>
    ELSE <<>>

\* C25: for any bootstrap payload that is a JSON object, with or without a
\* "storage" key and with or without a "storage.files" list, the payload for
\* the ignition secret is the input with one file entry appended to
\* storage.files (filesystem "root", path /etc/hostname, mode 420, contents
\* source "data:,<machine-name>"), every other key and every file entry
\* already there kept.
C25_HostnameFileAppended ==
    HostnameAdded =>
        IF FullUserData.panics \/ FullUserData.err # NoErr THEN FALSE
        ELSE LET out == FullUserData.data
             IN  /\ out.ignition = SrcUserData.ignition
                 /\ out.passwd = SrcUserData.passwd
                 /\ out.storage.has
                 /\ out.storage.disks = (IF SrcUserData.storage.has
                                         THEN SrcUserData.storage.disks ELSE NoKey)
                 /\ FilesOf(out) =
                        Append(FilesOf(SrcUserData),
                               [filesystem |-> "root", path |-> "/etc/hostname", mode |-> 420,
                                contents |-> [source |-> <<"data:,", MachineName>>]])

\* The same for the payloads that carry no "storage.files" list.
C25_WithoutFilesList ==
    (HostnameAdded /\ ~(SrcUserData.storage.has /\ SrcUserData.storage.files.has)) =>
        C25_HostnameFileAppended

Constructed == last.op = "New"

\* The config map the constructor read, and the actuator it returned.
ReadConfigMap == last.calls[1].arg

Actuator == last.calls[1].ret

BothKeysRead ==
    /\ ReadConfigMap.read = "ok"
    /\ ReadConfigMap.cMap.infraID.has
    /\ ReadConfigMap.cMap.namespace.has

\* C26: constructing the Actuator returns an error and no actuator whenever
\* the config map cannot be read, its value is malformed, or it lacks one of
\* the keys for the infra namespace and the infra cluster id; it returns an
\* actuator and no error only when both keys were read.
C26_NewFailsWithoutConfig ==
    Constructed =>
        /\ ~BothKeysRead => (Actuator.isNil /\ last.err # NoErr)
        /\ (~Actuator.isNil /\ last.err = NoErr) => BothKeysRead

\* The same with the config maps that could be read and decoded.
C26_WhenValueRead ==
    (Constructed /\ ReadConfigMap.read = "ok") => C26_NewFailsWithoutConfig

\* C27: after any sequence of status syncs the machine's instance state is
\* the three-state function of the pair observed last, whatever state earlier
\* syncs left on the machine: the same pair gives the same state from every
\* earlier state, and a regression reported by the infra cluster, ready then
\* not ready or created then not created, moves the state backwards.
C27_LastObservationOnly ==
    [][UpdateSynced' =>
          LET before == machine.instanceState
              after == last'.mem.instanceState
              created == Returned'.created
              ready == Returned'.ready
          IN  /\ after = (IF ~created THEN vmNotCreated
                          ELSE IF ready THEN vmCreatedAndReady ELSE vmCreatedNotReady)
              /\ (before = vmCreatedAndReady /\ created /\ ~ready) => after = vmCreatedNotReady
              /\ (before \in {vmCreatedAndReady, vmCreatedNotReady} /\ ~created) =>
                      after = vmNotCreated
              /\ (before = after) <=>
                      before = (IF ~created THEN vmNotCreated
                                ELSE IF ready THEN vmCreatedAndReady ELSE vmCreatedNotReady)]_vars

\* A sync that took the machine from created-and-ready back to not created;
\* the stored machine still has the earlier state, its patch having failed.
C27_Witness ==
    /\ UpdateSynced /\ last.mgrErr = NoErr
    /\ last.patchErr # NoErr
    /\ machine.instanceState = vmCreatedAndReady
    /\ ~Returned.created
    /\ last.mem.instanceState = vmNotCreated

\* The methods of the infra-cluster client the four operations use.
InfraMethods ==
    {"CreateSecret", "CreateVirtualMachine", "GetVirtualMachine", "UpdateVirtualMachine",
     "DeleteVirtualMachine", "GetVirtualMachineInstance"}

\* How many times the last operation called a method.
TimesCalled(method) ==
    Cardinality({i \in 1..Len(last.calls) : last.calls[i].call = method})

\* C28: an invocation of Create, Update, Delete or Exists ends after calling
\* each method of the infra-cluster client at most once; a call that failed is
\* not issued again within the invocation: it is the last call to the infra
\* cluster, and the invocation returns an error to its caller.
C28_EachCallAtMostOnce ==
    (last.op \in Operations /\ last.invoked) =>
        /\ \A method \in InfraMethods : TimesCalled(method) <= 1
        /\ \A method \in InfraMethods \cap last.in.faults :
              LET infra == SelectSeq(last.calls, LAMBDA c : c.call \in InfraMethods)
              IN  /\ TimesCalled(method) = 1
                  /\ infra[Len(infra)].call = method
                  /\ last.err # NoErr

\* An Update that lost its update call: the fetch and the update were each
\* called once and nothing of the infra cluster after them.
C28_Witness ==
    /\ last.op = "Update" /\ last.invoked
    /\ last.in.faults = {"UpdateVirtualMachine"}
    /\ TimesCalled("GetVirtualMachine") = 1
    /\ TimesCalled("UpdateVirtualMachine") = 1
    /\ TimesCalled("GetVirtualMachineInstance") = 0
    /\ last.err # NoErr

\* The step is an operation of the actuator on machine a.
OperationOn(a) == last'.target = a /\ last'.op \in Operations

\* Nothing of machine b is changed by the step.
Untouched(b) ==
    /\ vm'[KeyOf(b)] = vm[KeyOf(b)]
    /\ vmi'[KeyOf(b)] = vmi[KeyOf(b)]
    /\ secret'[KeyOf(b)] = secret[KeyOf(b)]
    /\ machine'[b] = machine[b]

\* C29: with two distinct machines whose operations interleave, an operation
\* on machine A writes only A's VM, runtime instance, ignition secret and
\* machine object: what belongs to machine B is as it was, so that B's
\* operations find what they would find had A's not run.
C29_MachinesIsolated ==
    [][\A a \in DOMAIN machine, b \in DOMAIN machine :
          (a # b /\ OperationOn(a)) => Untouched(b)]_vars

\* The same for two machines of different names.
C29_WhenNamesDiffer ==
    [][\A a \in DOMAIN machine, b \in DOMAIN machine :
          (a.name # b.name /\ OperationOn(a)) => Untouched(b)]_vars

\* The operation o, a Create or an Update, called for the runtime instance
\* and did not get it.
InstanceNotFetched(o) ==
    /\ o.op \in {"Create", "Update"} /\ o.invoked
    /\ "GetVirtualMachineInstance" \in CallNames(o.calls)
    /\ Len(o.mgrErr.msg) >= 4
    /\ o.mgrErr.msg[4] = "failed to get vmi of the Machine"

SyncRan(o) ==
    /\ o.op \in {"Create", "Update"} /\ o.invoked
    /\ "GetVirtualMachineInstance" \in CallNames(o.calls)
    /\ ~InstanceNotFetched(o)

MachinePatches == {"PatchMachine", "StatusPatchMachine"}

\* C31: the machine object is modified only by the status-sync routines.  A
\* step that leaves the machine changed, in memory or as stored, is a Create or
\* an Update that ran the sync; Exists, Delete and the operations that stop
\* after deriving the ignition secret and the VM leave every field of it as it
\* was, and Exists and Delete issue no patch of the machine.
C31_OnlySyncModifiesMachine ==
    [][/\ (machine' # machine \/ (last'.op \in Operations /\ last'.mem # machine)) =>
             SyncRan(last')
       /\ last'.op \in {"Exists", "Delete"} =>
             /\ machine' = machine
             /\ last'.mem = machine
             /\ CallNames(last'.calls) \cap MachinePatches = {}]_vars

\* A Delete that found the VM of a synced machine and deleted it: the machine
\* holds what the sync left on it and no patch was issued.
C31_Witness ==
    /\ last.op = "Delete" /\ last.invoked /\ last.mgrErr = NoErr
    /\ "DeleteVirtualMachine" \in CallNames(last.calls)
    /\ CallNames(last.calls) \cap MachinePatches = {}
    /\ Synced(machine)
    /\ machine.vmId # ""
    /\ last.mem = machine

----------------------------------------------------------------------------
(* Claims about the node reconcilers.                                      *)

NodeReconcilers == {"nodeupdate.Reconcile", "providerid.Reconcile"}

\* The step is a reconcile, by one of the reconcilers in rs, of a Node that
\* is there.
ReconcileBy(rs) == last'.op \in rs /\ last'.invoked /\ ~node.isNil

\* The step removes the Node.
NodeDeleted == ~node.isNil /\ node'.isNil

\* C32, for the reconcilers in rs: a reconcile deletes the Node only when its
\* lookup of the node's VM or runtime instance came back not-found; a lookup
\* that failed otherwise leaves the Node as it was and the reconcile returns
\* an error.
DeleteOnlyWhenVMGone(rs) ==
    ReconcileBy(rs) =>
        /\ NodeDeleted => last'.lookup = "NotFound"
        /\ last'.lookup = "error" => node' = node /\ last'.err # NoErr

\* C32: a node reconciler deletes a Node only when the infra cluster reports
\* that the node's backing VM (or runtime instance) does not exist; a lookup
\* failing for any other reason never deletes the Node and is returned as an
\* error.
C32_DeleteOnlyWhenVMGone == [][DeleteOnlyWhenVMGone(NodeReconcilers)]_vars

\* C32 for the nodeupdate reconciler alone.
C32_NodeupdateDeleteOnlyWhenVMGone == [][DeleteOnlyWhenVMGone({"nodeupdate.Reconcile"})]_vars

\* A reconcile whose lookup failed for another reason than absence, with the
\* Node gone after it.
C32_DeletedOnLookupError ==
    /\ last.op \in NodeReconcilers /\ last.invoked
    /\ last.lookup = "error"
    /\ "DeleteNode" \in CallNames(last.calls)
    /\ node.isNil

\* The step wrote the provider id of the Node.
ProviderIDWritten == ~node'.isNil /\ node'.providerID # node.providerID

\* C33, for the reconcilers in rs.
RequeueWhileNotReady(rs) ==
    ReconcileBy(rs) =>
        /\ (~vm.isNil /\ ~vm.ready /\ last'.in.faults = {} /\ last'.configured) =>
               /\ last'.result = Result(TRUE, 60)
               /\ last'.err = NoErr
               /\ node' = node
        /\ ProviderIDWritten => ~vm.isNil /\ vm.ready /\ last'.lookup = "found"

\* C33: while the node's VM exists but is not ready, a reconcile (none of
\* whose calls fails in transit) requests a requeue after 60 seconds, returns
\* no error and does not write the Node; the provider id of a Node is written
\* only in a reconcile that observed the VM as ready.
C33_RequeueWhileNotReady == [][RequeueWhileNotReady(NodeReconcilers)]_vars

\* C33 for the nodeupdate reconciler alone.
C33_NodeupdateRequeueWhileNotReady == [][RequeueWhileNotReady({"nodeupdate.Reconcile"})]_vars

\* A reconcile that left a provider id on the Node while the VM is not ready.
C33_WrittenWhileNotReady ==
    /\ last.op \in NodeReconcilers /\ last.invoked
    /\ "UpdateNode" \in CallNames(last.calls) /\ last.err = NoErr
    /\ ~vm.isNil /\ ~vm.ready
    /\ ~node.isNil /\ hasProviderID(node)

\* C34: the provider id of a Node, once non-empty, is never changed by a node
\* reconciler; when a reconciler writes it, the value is
\* "kubevirt://<infra namespace>/<node name>", the identifier the status sync
\* writes onto the machine of the same VM.
C34_ProviderIDWrittenOnce ==
    [][(ReconcileBy(NodeReconcilers) /\ ~node'.isNil) =>
          /\ node.providerID # <<>> => node'.providerID = node.providerID
          /\ ProviderIDWritten =>
                /\ node'.providerID = <<"kubevirt://", InfraNamespace, "/", node.name>>
                /\ ~vm.isNil
                /\ Str(node'.providerID) =
                       syncProviderID(machine, FormatProviderID(vm.namespace, vm.name)).providerID]_vars

\* A reconcile found a provider id of another origin on the Node of a ready
\* VM and left it; a reconcile wrote the provider id of a Node without one.
C34_Witness ==
    /\ last.op \in NodeReconcilers /\ last.invoked /\ last.err = NoErr
    /\ last.lookup = "found"
    /\ ~vm.isNil /\ vm.ready
    /\ ~node.isNil
    /\ node.providerID = <<"kubevirt://", "elsewhere", "/", NodeName>>

C34_WitnessWritten ==
    /\ last.op \in NodeReconcilers /\ last.invoked /\ last.err = NoErr
    /\ "UpdateNode" \in CallNames(last.calls)
    /\ ~node.isNil
    /\ node.providerID = FormatProviderID(InfraNamespace, NodeName)

----------------------------------------------------------------------------
(* Claims about the reconcile loop.                                        *)

\* From some point on no call of an operation fails.
StopsFailing == <>[](last.in.faults = {})

\* The stored machine carries the provider id of its VM and the
\* created-and-ready instance state.
MachineReady == Synced(machine) /\ machine.instanceState = vmCreatedAndReady

\* An earlier Create has left the ignition secret without the VM.
SecretWithoutVM == ~secret.isNil /\ vm.isNil

\* C35: if the framework keeps reconciling the machine and the infra cluster
\* eventually stops failing and brings the VM up (created, ready, with a
\* runtime instance), then eventually the machine has the provider id
\* "kubevirt://<infra namespace>/<machine name>" and the created-and-ready
\* instance state, also after a Create that failed between creating the
\* ignition secret and creating the VM.
C35_EventuallyReady == StopsFailing => <>MachineReady

\* C35 for the behaviours in which no Create fails between the secret and
\* the VM.
C35_ReadyUnlessSecretLeft == (StopsFailing /\ []~SecretWithoutVM) => <>MachineReady

\* A Create that failed on the secret left behind by an earlier Create, with
\* no call failing in transit.
C35_CreateBlockedBySecret ==
    /\ last.op = "Create" /\ last.invoked /\ last.in.faults = {}
    /\ last.err # NoErr
    /\ SecretWithoutVM

----------------------------------------------------------------------------
(* Claims about what the operations leave in the infra cluster.            *)

\* The step left a secret or a VM in the infra cluster that was not there.
NewResource == (secret.isNil /\ ~secret'.isNil) \/ (vm.isNil /\ ~vm'.isNil)

\* C36: a Create that returns an error has left no new resource in the infra
\* cluster: no ignition secret and no VM exists after it that did not exist
\* before the call.
C36_FailedCreateLeavesNothing ==
    [][(last'.op = "Create" /\ last'.err # NoErr) => ~NewResource]_vars

\* C36 for the Creates that fail before the manager is called: the provider
\* configuration cannot be decoded or the user-data secret cannot be read.
C36_NotInvokedLeavesNothing ==
    [][(last'.op = "Create" /\ ~last'.invoked) => last'.err # NoErr /\ ~NewResource]_vars

\* A Create rejected for its provider configuration after it created the
\* ignition secret.
C36_SecretLeftByInvalidSpec ==
    /\ last.op = "Create" /\ last.invoked /\ last.err # NoErr
    /\ last.in.ps # ValidSpec /\ last.in.faults = {}
    /\ "CreateSecret" \in CallNames(last.calls)
    /\ "CreateVirtualMachine" \notin CallNames(last.calls)
    /\ SecretWithoutVM

\* A Delete has succeeded and the VM is gone from the infra cluster.
DeletedAndGone == last.op = "Delete" /\ last.invoked /\ last.err = NoErr /\ vm.isNil

\* A Create of the valid machine with the user-data secret in place and no
\* call failing.
CleanCreate(o) ==
    /\ o.op = "Create"
    /\ o.in.ps = ValidSpec /\ o.in.userSecret = "ok" /\ o.in.faults = {}

\* C37: once a Delete has succeeded and the infra cluster has completed the
\* removal of the VM, the infra cluster holds neither the VM nor the ignition
\* secret created for the machine, and a Create for a machine of the same
\* name that follows is not held up by anything left behind: it succeeds, or
\* stops only because the runtime instance of the new VM is not up yet.
C37_DeleteLeavesNothing ==
    [][DeletedAndGone =>
          /\ secret.isNil
          /\ CleanCreate(last') => (last'.err = NoErr \/ InstanceNotFetched(last'))]_vars

\* A successful Delete has left the ignition secret of the machine behind.
C37_SecretLeftByDelete == DeletedAndGone /\ ~secret.isNil

\* The Create that follows is not held up once the secret left behind has
\* been removed by other means.
C37_CreateAfterCleanupSucceeds ==
    [][(DeletedAndGone /\ secret.isNil /\ CleanCreate(last')) =>
          (last'.err = NoErr \/ InstanceNotFetched(last'))]_vars

\* C38: Update never creates anything in the infra cluster.  No Update leaves
\* a VM or a secret that was not there, and an Update that finds the backing
\* VM absent leaves the VMs and secrets of the infra cluster as they were and
\* reports an error.
C38_UpdateCreatesNothing ==
    [][last'.op = "Update" =>
          /\ ~NewResource
          /\ secret' = secret
          /\ vm.isNil => /\ vm' = vm /\ vmi' = vmi
                          /\ last'.err # NoErr]_vars

\* An Update that looked for the VM, found it absent and returned an error,
\* with the ignition secret of an earlier Create in the infra cluster.
C38_Witness ==
    /\ last.op = "Update" /\ last.invoked
    /\ last.lookup = "NotFound"
    /\ last.in.faults = {} /\ last.in.ps = ValidSpec
    /\ last.err # NoErr
    /\ vm.isNil /\ ~secret.isNil

\* C38 for the update step of package vm: with the VM absent it leaves the
\* infra cluster as it was and returns a requeue error.
C38_VmUpdateVMCreatesNothing ==
    [][last'.op = "vm.updateVM" =>
          /\ ~NewResource
          /\ secret' = secret
          /\ vm.isNil => /\ vm' = vm /\ vmi' = vmi
                          /\ last'.err # NoErr]_vars

----------------------------------------------------------------------------
(* Claims about the notifications of the actuator.                         *)

\* The operation o raised a notification of the normal class.
NotifiedNormal(o) == \E i \in 1..Len(o.events) : o.events[i].type = EventTypeNormal

\* The positions of the call named n among the calls of o.
CallsOf(o, n) == {i \in 1..Len(o.calls) : o.calls[i].call = n}

\* C39: the actuator raises no normal notification for a Create or an Update
\* whose persist step failed.  A normal notification means that the manager
\* operation, the spec patch and the status patch of the machine all
\* succeeded; the status patch is attempted only after the spec patch has
\* succeeded.
C39_NoSuccessEventOnFailedPersist ==
    (last.op \in {"Create", "Update"} /\ last.invoked) =>
        /\ NotifiedNormal(last) =>
              /\ last.mgrErr = NoErr /\ last.patchErr = NoErr /\ last.err = NoErr
              /\ CallsOf(last, "PatchMachine") # {} /\ CallsOf(last, "StatusPatchMachine") # {}
              /\ last.in.faults \cap MachinePatches = {}
        /\ \A j \in CallsOf(last, "StatusPatchMachine") :
              /\ "PatchMachine" \notin last.in.faults
              /\ \E i \in CallsOf(last, "PatchMachine") : i < j
        /\ last.in.faults \cap MachinePatches # {} =>
              /\ last.patchErr # NoErr /\ last.err # NoErr
              /\ ~NotifiedNormal(last)

\* A Create whose manager operation and spec patch succeeded and whose status
\* patch failed: it raised no normal notification.
C39_Witness ==
    /\ last.op = "Create" /\ last.invoked
    /\ last.mgrErr = NoErr
    /\ last.in.faults = {"StatusPatchMachine"}
    /\ CallsOf(last, "StatusPatchMachine") # {}
    /\ last.patchErr # NoErr
    /\ ~NotifiedNormal(last)

\* An Update whose spec patch failed: the status patch was not attempted.
C39_WitnessSpecPatch ==
    /\ last.op = "Update" /\ last.invoked
    /\ last.mgrErr = NoErr
    /\ last.in.faults = {"PatchMachine"}
    /\ CallsOf(last, "PatchMachine") # {} /\ CallsOf(last, "StatusPatchMachine") = {}
    /\ ~NotifiedNormal(last)

====
